---- MODULE Spec2Model ----
(***************************************************************************)
(* Model of the log-analysis pipeline: LogParser (normalisation, filter,   *)
(* enrichment) of src/log_analyzer/log_parser.py.                          *)
(*                                                                         *)
(* A Python str is a sequence of characters; a character is a one-letter   *)
(* string, and a non-ASCII character is written by its code point          *)
(* ("U+043D").  A Python value that may be missing, None, a str or a       *)
(* datetime is a record tagged by its kind.                                *)
(***************************************************************************)
EXTENDS Integers, Sequences, FiniteSets, TLC

VARIABLES
  filter_levels,     \* LogParser.filter_levels
  include_keywords,  \* LogParser.include_keywords
  exclude_keywords,  \* LogParser.exclude_keywords
  pc,                \* "idle": no call in progress; "returned": the call returned
  raw_logs,          \* argument of parse_logs
  parsed_logs,       \* value returned by parse_logs
  stages,            \* history: per raw record, the stages parse_logs passed it to
  init_args,         \* history: the arguments LogParser was constructed with
  analysis_results,  \* LogAnalyzer.analysis_results
  analyzed_logs,     \* argument logs of the last call of analyze
  analyzed_top_n,    \* argument top_n of the last call of analyze
  analyze_result,    \* value returned by the last call of analyze
  clock,             \* the wall clock that datetime.now() reads
  main_pc,           \* the statement main() is at
  args_top,          \* main: args.top
  main_logs,         \* main: logs, the value read_logs returned
  called,            \* history: the stage methods main() has called, in order
  console,           \* history: the messages main() has printed, in order
  returned           \* the value main() returned

parser_vars ==
  <<filter_levels, include_keywords, exclude_keywords, pc,
    raw_logs, parsed_logs, stages, init_args>>

analyzer_vars ==
  <<analysis_results, analyzed_logs, analyzed_top_n, analyze_result, clock>>

main_vars == <<main_pc, args_top, main_logs, called, console, returned>>

vars == <<parser_vars, analyzer_vars, main_vars>>

----------------------------------------------------------------------------
(* Python values *)

Absent == [kind |-> "absent"]
None == [kind |-> "None"]
PyStr(s) == [kind |-> "str", s |-> s]
PyDatetime(t) == [kind |-> "datetime", t |-> t]

Get(value, default) == IF value.kind = "absent" THEN default ELSE value

GetOrNone(value) == Get(value, None)

Str(value) ==
  CASE value.kind = "str" -> value.s
    [] value.kind = "None" -> <<"N", "o", "n", "e">>

IsDatetime(value) == value.kind = "datetime"

----------------------------------------------------------------------------
(* Python str operations *)

Whitespace == {" ", "\t"}
Digits == {"0", "1", "2", "3", "4", "5", "6", "7", "8", "9"}
HexLetters == {"a", "b", "c", "d", "e", "f", "A", "B", "C", "D", "E", "F"}

UpperChars ==
  <<
    "A", "B", "C", "D", "E", "F", "G", "H", "I", "J", "K", "L", "M",
    "N", "O", "P", "Q", "R", "S", "T", "U", "V", "W", "X", "Y", "Z",
    "U+0410", "U+0411", "U+0412", "U+0413", "U+0490", "U+0414", "U+0415", "U+0404", "U+0416", "U+0417", "U+0418", "U+0406", "U+0407",
    "U+0419", "U+041A", "U+041B", "U+041C", "U+041D", "U+041E", "U+041F", "U+0420", "U+0421", "U+0422", "U+0423", "U+0424", "U+0425",
    "U+0426", "U+0427", "U+0428", "U+0429", "U+042C", "U+042E", "U+042F"
  >>
LowerChars ==
  <<
    "a", "b", "c", "d", "e", "f", "g", "h", "i", "j", "k", "l", "m",
    "n", "o", "p", "q", "r", "s", "t", "u", "v", "w", "x", "y", "z",
    "U+0430", "U+0431", "U+0432", "U+0433", "U+0491", "U+0434", "U+0435", "U+0454", "U+0436", "U+0437", "U+0438", "U+0456", "U+0457",
    "U+0439", "U+043A", "U+043B", "U+043C", "U+043D", "U+043E", "U+043F", "U+0440", "U+0441", "U+0442", "U+0443", "U+0444", "U+0445",
    "U+0446", "U+0447", "U+0448", "U+0449", "U+044C", "U+044E", "U+044F"
  >>

LowerTable ==
  [c \in {UpperChars[i] : i \in DOMAIN UpperChars} |->
     LowerChars[CHOOSE i \in DOMAIN UpperChars : UpperChars[i] = c]]

UpperTable ==
  [c \in {LowerChars[i] : i \in DOMAIN LowerChars} |->
     UpperChars[CHOOSE i \in DOMAIN LowerChars : LowerChars[i] = c]]

LowerChar(c) == IF c \in DOMAIN LowerTable THEN LowerTable[c] ELSE c

UpperChar(c) == IF c \in DOMAIN UpperTable THEN UpperTable[c] ELSE c

Lower(s) == [i \in 1..Len(s) |-> LowerChar(s[i])]

Upper(s) == [i \in 1..Len(s) |-> UpperChar(s[i])]

Min(S) == CHOOSE x \in S : \A y \in S : x <= y

Max(S) == CHOOSE x \in S : \A y \in S : x >= y

Strip(s) ==
  LET solid == {i \in 1..Len(s) : s[i] \notin Whitespace}
  IN  IF solid = {} THEN <<>> ELSE SubSeq(s, Min(solid), Max(solid))

StartsWithAt(s, i, k) ==
  /\ i + Len(k) - 1 <= Len(s)
  /\ \A j \in 1..Len(k) : s[i + j - 1] = k[j]

Contains(s, k) == \E i \in 1..(Len(s) - Len(k) + 1) : StartsWithAt(s, i, k)

AnyIn(keywords, message) ==
  \E n \in DOMAIN keywords : Contains(message, keywords[n])

AnyLowerIn(keywords, message) ==
  \E n \in DOMAIN keywords : Contains(message, Lower(keywords[n]))

\* The first position from i on whose character is outside the class
\* (inside it, for SkipUntil): where a greedy run of the class ends.
SkipWhile(s, i, class) ==
  IF i <= Len(s) /\ s[i] \notin class THEN i
  ELSE LET stop == {j \in i..Len(s) : s[j] \notin class}
       IN  IF stop = {} THEN Len(s) + 1 ELSE Min(stop)

SkipUntil(s, i, class) ==
  IF i <= Len(s) /\ s[i] \in class THEN i
  ELSE LET stop == {j \in i..Len(s) : s[j] \in class}
       IN  IF stop = {} THEN Len(s) + 1 ELSE Min(stop)

Tail_(s, i) == SubSeq(s, i, Len(s))

----------------------------------------------------------------------------
(* LogParser class constants *)

ERROR == <<"E", "R", "R", "O", "R">>
CRITICAL == <<"C", "R", "I", "T", "I", "C", "A", "L">>
WARNING == <<"W", "A", "R", "N", "I", "N", "G">>
INFO == <<"I", "N", "F", "O">>
DEBUG == <<"D", "E", "B", "U", "G">>

ERROR_KEYWORDS ==
  <<
    <<"e", "r", "r", "o", "r">>,
    <<"e", "r", "r">>,
    <<"f", "a", "i", "l", "e", "d">>,
    <<"f", "a", "i", "l", "u", "r", "e">>,
    <<"e", "x", "c", "e", "p", "t", "i", "o", "n">>,
    <<"c", "r", "i", "t", "i", "c", "a", "l">>,
    <<"f", "a", "t", "a", "l">>,
    <<"p", "a", "n", "i", "c">>,
    <<"d", "e", "n", "i", "e", "d">>,
    <<"r", "e", "f", "u", "s", "e", "d">>,
    <<"t", "i", "m", "e", "o", "u", "t">>,
    <<"c", "o", "r", "r", "u", "p", "t">>,
    <<"i", "n", "v", "a", "l", "i", "d">>,
    <<"U+043D", "U+0435", " ", "U+0432", "U+0434", "U+0430", "U+043B", "U+043E", "U+0441", "U+044F">>,
    <<"U+043F", "U+043E", "U+043C", "U+0438", "U+043B", "U+043A", "U+0430">>,
    <<"U+0437", "U+0431", "U+0456", "U+0439">>,
    <<"U+0432", "U+0456", "U+0434", "U+043C", "U+043E", "U+0432", "U+0430">>,
    <<"U+0437", "U+0430", "U+0431", "U+043E", "U+0440", "U+043E", "U+043D", "U+0435", "U+043D", "U+043E">>
  >>

WARNING_KEYWORDS ==
  <<
    <<"w", "a", "r", "n", "i", "n", "g">>,
    <<"w", "a", "r", "n">>,
    <<"d", "e", "p", "r", "e", "c", "a", "t", "e", "d">>,
    <<"o", "b", "s", "o", "l", "e", "t", "e">>,
    <<"r", "e", "t", "r", "y">>,
    <<"s", "l", "o", "w">>,
    <<"U+043F", "U+043E", "U+043F", "U+0435", "U+0440", "U+0435", "U+0434", "U+0436", "U+0435", "U+043D", "U+043D", "U+044F">>,
    <<"U+0437", "U+0430", "U+0441", "U+0442", "U+0430", "U+0440", "U+0456", "U+043B", "U+043E">>,
    <<"U+043F", "U+043E", "U+0432", "U+0456", "U+043B", "U+044C", "U+043D", "U+043E">>
  >>

----------------------------------------------------------------------------
(* LogParser._clean_message and the three CLEANUP_PATTERNS *)

\* re.sub(r'\s+', ' ', s): every maximal run of whitespace becomes one space.
RECURSIVE CollapseWhitespace(_)
CollapseWhitespace(s) ==
  LET a == SkipUntil(s, 1, Whitespace)
      b == SkipWhile(s, a, Whitespace)
  IN  IF a > Len(s) THEN s
      ELSE SubSeq(s, 1, a - 1) \o <<" ">> \o CollapseWhitespace(Tail_(s, b))

StripKernelTimestamp(s) ==
  LET a == SkipWhile(s, 1, Whitespace)
      b == SkipWhile(s, a + 1, Digits)
      c == SkipWhile(s, b + 1, Digits)
      d == SkipWhile(s, c + 1, Whitespace)
  IN  IF /\ a <= Len(s) /\ s[a] = "["
         /\ b > a + 1 /\ b <= Len(s) /\ s[b] = "."
         /\ c > b + 1 /\ c <= Len(s) /\ s[c] = "]"
      THEN Tail_(s, d)
      ELSE s

StripAngleBrackets(s) ==
  LET a == SkipWhile(s, 1, {"<", ">"})
      b == SkipWhile(s, a, Whitespace)
  IN  IF a > 1 THEN Tail_(s, b) ELSE s

CleanMessage(message) ==
  Strip(StripAngleBrackets(StripKernelTimestamp(CollapseWhitespace(message))))

----------------------------------------------------------------------------
(* LogParser._normalize_log_entry *)

Unknown == <<"U", "n", "k", "n", "o", "w", "n">>

EmptyDict == [kind |-> "dict"]

\* The dict _normalize_log_entry returns for a usable record.
Normalized(log_entry, timestamp, message) ==
  [kind |-> "dict",
   timestamp |-> timestamp,
   level |-> Upper(Str(Get(log_entry.level, PyStr(INFO)))),
   source |-> Str(Get(log_entry.source, PyStr(Unknown))),
   message |-> CleanMessage(message),
   original_message |-> message,
   pid |-> GetOrNone(log_entry.pid),
   hostname |-> GetOrNone(log_entry.hostname),
   user |-> GetOrNone(log_entry.user),
   event_id |-> GetOrNone(log_entry.event_id),
   category |-> GetOrNone(log_entry.category),
   log_source |-> Get(log_entry.log_source, PyStr(Unknown)),
   unit |-> GetOrNone(log_entry.unit),
   computer |-> GetOrNone(log_entry.computer),
   raw_data |-> Get(log_entry.raw_data, EmptyDict)]

\* Mutant: the emptiness of the trimmed message is not checked.
NormalizeLogEntry_NoMessageCheck(log_entry) ==
  IF log_entry.kind # "dict" THEN None
  ELSE
    LET timestamp == GetOrNone(log_entry.timestamp)
        message == Strip(Str(Get(log_entry.message, PyStr(<<>>))))
    IN  IF ~IsDatetime(timestamp) THEN None
        ELSE Normalized(log_entry, timestamp, message)

\* A record that is no dict has no get(): the AttributeError is caught and
\* None is returned.
NormalizeLogEntry(log_entry) ==
  IF log_entry.kind # "dict" THEN None
  ELSE
    LET timestamp == GetOrNone(log_entry.timestamp)
        message == Strip(Str(Get(log_entry.message, PyStr(<<>>))))
    IN  IF ~IsDatetime(timestamp) THEN None
        ELSE IF message = <<>> THEN None
        ELSE Normalized(log_entry, timestamp, message)

----------------------------------------------------------------------------
(* LogParser._should_include_log *)

InList(x, list) == \E n \in DOMAIN list : list[n] = x

\* Mutant: the level step consults the include keywords.
FailsLevelStep_IncludeKeywords(log_entry) ==
  /\ ~InList(log_entry.level, filter_levels)
  /\ ~AnyLowerIn(include_keywords, Lower(log_entry.message))

FailsLevelStep(log_entry) ==
  /\ ~InList(log_entry.level, filter_levels)
  /\ ~AnyLowerIn(ERROR_KEYWORDS, Lower(log_entry.message))

\* Mutant: the exclude keywords are compared without lower-casing them.
FailsExcludeStep_CaseSensitive(log_entry) ==
  AnyIn(exclude_keywords, Lower(log_entry.message))

FailsExcludeStep(log_entry) ==
  AnyLowerIn(exclude_keywords, Lower(log_entry.message))

\* Mutant: only CRITICAL is exempt from the include-keyword check.
FailsIncludeStep_CriticalOnly(log_entry) ==
  /\ Len(include_keywords) > 0
  /\ ~AnyLowerIn(include_keywords, Lower(log_entry.message))
  /\ ~InList(log_entry.level, <<CRITICAL>>)

FailsIncludeStep(log_entry) ==
  /\ Len(include_keywords) > 0
  /\ ~AnyLowerIn(include_keywords, Lower(log_entry.message))
  /\ ~InList(log_entry.level, <<ERROR, CRITICAL>>)

\* The line of the return statement that _should_include_log leaves by.
ReturnLine(log_entry) ==
  IF FailsLevelStep(log_entry) THEN 163
  ELSE IF FailsExcludeStep(log_entry) THEN 167
  ELSE IF FailsIncludeStep(log_entry) THEN 174
  ELSE 176

ShouldIncludeLog(log_entry) == ReturnLine(log_entry) = 176

----------------------------------------------------------------------------
(* LogParser._generate_message_hash *)

\* The end of the leftmost-alternative match of
\* (\d+|/[^\s]*|[A-F0-9]{8,}|0x[A-F0-9]+), re.IGNORECASE, at position i
\* (the position after its last character), or i when nothing matches there.
VariableMatchEnd(s, i) ==
  LET d == SkipWhile(s, i, Digits)
      p == SkipUntil(s, i + 1, Whitespace)
      h == SkipWhile(s, i, Digits \cup HexLetters)
      x == SkipWhile(s, i + 2, Digits \cup HexLetters)
  IN  IF d > i THEN d
      ELSE IF s[i] = "/" THEN p
      ELSE IF h - i >= 8 THEN h
      ELSE IF /\ s[i] = "0" /\ i + 1 <= Len(s) /\ s[i + 1] \in {"x", "X"}
              /\ x > i + 2
           THEN x
      ELSE i

\* pattern.sub('{}', s): every match, found left to right, becomes '{}'.
RECURSIVE SubVariable(_)
SubVariable(s) ==
  LET hits == {i \in 1..Len(s) : VariableMatchEnd(s, i) > i}
      a == Min(hits)
  IN  IF hits = {} THEN s
      ELSE SubSeq(s, 1, a - 1) \o <<"{", "}">>
             \o SubVariable(Tail_(s, VariableMatchEnd(s, a)))

\* ' '.join(s.split())
JoinSplit(s) == Strip(CollapseWhitespace(s))

NormalizedForHash(message) == JoinSplit(Lower(SubVariable(message)))

\* hash(): a function of the characters of the string; equal strings hash
\* equal, and the model keeps distinct strings distinct.
Hash(s) == [hash_of |-> s]

GenerateMessageHash(message) == Hash(NormalizedForHash(message))

----------------------------------------------------------------------------
(* LogParser._classify_error_type *)

NetworkWords == <<<<"n", "e", "t", "w", "o", "r", "k">>, <<"c", "o", "n", "n", "e", "c", "t", "i", "o", "n">>, <<"t", "i", "m", "e", "o", "u", "t">>, <<"s", "o", "c", "k", "e", "t">>, <<"d", "n", "s">>>>
FilesystemWords == <<<<"f", "i", "l", "e">>, <<"d", "i", "r", "e", "c", "t", "o", "r", "y">>, <<"d", "i", "s", "k">>, <<"s", "p", "a", "c", "e">>, <<"p", "e", "r", "m", "i", "s", "s", "i", "o", "n">>>>
AuthWords == <<<<"a", "u", "t", "h">>, <<"l", "o", "g", "i", "n">>, <<"p", "a", "s", "s", "w", "o", "r", "d">>, <<"d", "e", "n", "i", "e", "d">>, <<"f", "o", "r", "b", "i", "d", "d", "e", "n">>>>
ApplicationWords == <<<<"a", "p", "p", "l", "i", "c", "a", "t", "i", "o", "n">>, <<"s", "e", "r", "v", "i", "c", "e">>, <<"p", "r", "o", "c", "e", "s", "s">>, <<"c", "r", "a", "s", "h">>>>
SystemWords == <<<<"s", "y", "s", "t", "e", "m">>, <<"k", "e", "r", "n", "e", "l">>, <<"d", "r", "i", "v", "e", "r">>, <<"h", "a", "r", "d", "w", "a", "r", "e">>>>

\* The labels are Ukrainian in the source; they are transliterated here.
NetworkError == "Merezheva pomylka"
FilesystemError == "Pomylka failovoi systemy"
AuthError == "Pomylka avtentyfikatsii"
ApplicationError == "Pomylka prohramy"
SystemError == "Systemna pomylka"
GeneralError == "Zahalna pomylka"

\* Mutant: the filesystem words are tried before the network words.
ClassifyErrorType_FilesystemFirst(message) ==
  LET message_lower == Lower(message)
  IN  IF AnyIn(FilesystemWords, message_lower) THEN FilesystemError
      ELSE IF AnyIn(NetworkWords, message_lower) THEN NetworkError
      ELSE IF AnyIn(AuthWords, message_lower) THEN AuthError
      ELSE IF AnyIn(ApplicationWords, message_lower) THEN ApplicationError
      ELSE IF AnyIn(SystemWords, message_lower) THEN SystemError
      ELSE GeneralError

ClassifyErrorType(message) ==
  LET message_lower == Lower(message)
  IN  IF AnyIn(NetworkWords, message_lower) THEN NetworkError
      ELSE IF AnyIn(FilesystemWords, message_lower) THEN FilesystemError
      ELSE IF AnyIn(AuthWords, message_lower) THEN AuthError
      ELSE IF AnyIn(ApplicationWords, message_lower) THEN ApplicationError
      ELSE IF AnyIn(SystemWords, message_lower) THEN SystemError
      ELSE GeneralError

----------------------------------------------------------------------------
(* LogParser._calculate_severity_score *)

critical_keywords == <<<<"c", "r", "i", "t", "i", "c", "a", "l">>, <<"f", "a", "t", "a", "l">>, <<"p", "a", "n", "i", "c">>, <<"c", "r", "a", "s", "h">>, <<"c", "o", "r", "r", "u", "p", "t", "i", "o", "n">>>>

LevelScore(level) ==
  IF level = CRITICAL THEN 90
  ELSE IF level = ERROR THEN 70
  ELSE IF level = WARNING THEN 40
  ELSE IF level = INFO THEN 20
  ELSE IF level = DEBUG THEN 10
  ELSE 20

KeywordBonus(message) ==
  10 * Cardinality({n \in DOMAIN critical_keywords :
                      Contains(message, critical_keywords[n])})

\* Mutant: the score is not clamped.
CalculateSeverityScore_NoClamp(log_entry) ==
  LevelScore(log_entry.level) + KeywordBonus(Lower(log_entry.message))

CalculateSeverityScore(log_entry) ==
  LET score == LevelScore(log_entry.level)
                 + KeywordBonus(Lower(log_entry.message))
  IN  IF score < 100 THEN score ELSE 100

----------------------------------------------------------------------------
(* LogParser._simplify_message *)

replacements ==
  <<
    <<<<"a", "u", "t", "h", "e", "n", "t", "i", "c", "a", "t", "i", "o", "n", " ", "f", "a", "i", "l", "e", "d">>,
      <<"U+043D", "U+0435", " ", "U+0432", "U+0434", "U+0430", "U+043B", "U+043E", "U+0441", "U+044F", " ", "U+0443", "U+0432", "U+0456", "U+0439", "U+0442", "U+0438", " ", "U+0432", " ", "U+0441", "U+0438", "U+0441", "U+0442", "U+0435", "U+043C", "U+0443">>>>,
    <<<<"c", "o", "n", "n", "e", "c", "t", "i", "o", "n", " ", "t", "i", "m", "e", "o", "u", "t">>,
      <<"U+043F", "U+0435", "U+0440", "U+0435", "U+0432", "U+0438", "U+0449", "U+0435", "U+043D", "U+043E", " ", "U+0447", "U+0430", "U+0441", " ", "U+043E", "U+0447", "U+0456", "U+043A", "U+0443", "U+0432", "U+0430", "U+043D", "U+043D", "U+044F", " ", "U+0437", "'", "U+0454", "U+0434", "U+043D", "U+0430", "U+043D", "U+043D", "U+044F">>>>,
    <<<<"p", "e", "r", "m", "i", "s", "s", "i", "o", "n", " ", "d", "e", "n", "i", "e", "d">>,
      <<"U+043D", "U+0435", "U+0434", "U+043E", "U+0441", "U+0442", "U+0430", "U+0442", "U+043D", "U+044C", "U+043E", " ", "U+043F", "U+0440", "U+0430", "U+0432", " ", "U+0434", "U+043E", "U+0441", "U+0442", "U+0443", "U+043F", "U+0443">>>>,
    <<<<"f", "i", "l", "e", " ", "n", "o", "t", " ", "f", "o", "u", "n", "d">>,
      <<"U+0444", "U+0430", "U+0439", "U+043B", " ", "U+043D", "U+0435", " ", "U+0437", "U+043D", "U+0430", "U+0439", "U+0434", "U+0435", "U+043D", "U+043E">>>>,
    <<<<"d", "i", "s", "k", " ", "f", "u", "l", "l">>,
      <<"U+0434", "U+0438", "U+0441", "U+043A", " ", "U+0437", "U+0430", "U+043F", "U+043E", "U+0432", "U+043D", "U+0435", "U+043D", "U+0438", "U+0439">>>>,
    <<<<"s", "e", "r", "v", "i", "c", "e", " ", "f", "a", "i", "l", "e", "d">>,
      <<"U+0441", "U+043B", "U+0443", "U+0436", "U+0431", "U+0430", " ", "U+043D", "U+0435", " ", "U+043F", "U+0440", "U+0430", "U+0446", "U+044E", "U+0454">>>>,
    <<<<"n", "e", "t", "w", "o", "r", "k", " ", "u", "n", "r", "e", "a", "c", "h", "a", "b", "l", "e">>,
      <<"U+043C", "U+0435", "U+0440", "U+0435", "U+0436", "U+0430", " ", "U+043D", "U+0435", "U+0434", "U+043E", "U+0441", "U+0442", "U+0443", "U+043F", "U+043D", "U+0430">>>>,
    <<<<"o", "u", "t", " ", "o", "f", " ", "m", "e", "m", "o", "r", "y">>,
      <<"U+043D", "U+0435", "U+0434", "U+043E", "U+0441", "U+0442", "U+0430", "U+0442", "U+043D", "U+044C", "U+043E", " ", "U+043F", "U+0430", "U+043C", "'", "U+044F", "U+0442", "U+0456">>>>,
    <<<<"i", "n", "v", "a", "l", "i", "d", " ", "r", "e", "q", "u", "e", "s", "t">>,
      <<"U+043D", "U+0435", "U+043F", "U+0440", "U+0430", "U+0432", "U+0438", "U+043B", "U+044C", "U+043D", "U+0438", "U+0439", " ", "U+0437", "U+0430", "U+043F", "U+0438", "U+0442">>>>,
    <<<<"a", "c", "c", "e", "s", "s", " ", "d", "e", "n", "i", "e", "d">>,
      <<"U+0434", "U+043E", "U+0441", "U+0442", "U+0443", "U+043F", " ", "U+0437", "U+0430", "U+0431", "U+043E", "U+0440", "U+043E", "U+043D", "U+0435", "U+043D", "U+043E">>>>
  >>

SimplifiedMax == 150

\* s.replace(old, new): every occurrence, found left to right, is replaced.
RECURSIVE Replace(_, _, _)
Replace(s, old, new) ==
  LET hits == {i \in 1..(Len(s) - Len(old) + 1) : StartsWithAt(s, i, old)}
      a == Min(hits)
  IN  IF hits = {} THEN s
      ELSE SubSeq(s, 1, a - 1) \o new
             \o Replace(Tail_(s, a + Len(old)), old, new)

RECURSIVE ApplyReplacements(_, _)
ApplyReplacements(s, n) ==
  IF n > Len(replacements) THEN s
  ELSE ApplyReplacements(Replace(s, replacements[n][1], replacements[n][2]),
                         n + 1)

Capitalize(s) ==
  [i \in 1..Len(s) |-> IF i = 1 THEN UpperChar(s[i]) ELSE LowerChar(s[i])]

SimplifyMessage(message) ==
  LET simplified == ApplyReplacements(Lower(message), 1)
      cut == IF Len(simplified) > SimplifiedMax
             THEN SubSeq(simplified, 1, SimplifiedMax - 3) \o <<".", ".", ".">>
             ELSE simplified
  IN  Capitalize(cut)

----------------------------------------------------------------------------
(* LogParser._process_log_entry *)

ProcessLogEntry(log_entry) ==
  [message_hash |-> GenerateMessageHash(log_entry.message),
   error_type |-> ClassifyErrorType(log_entry.message),
   severity_score |-> CalculateSeverityScore(log_entry),
   simplified_message |-> SimplifyMessage(log_entry.message)]
  @@ log_entry

----------------------------------------------------------------------------
(* LogParser.parse_logs *)

\* One iteration of the loop of parse_logs: the stages the record is passed
\* to, the entry handed to _should_include_log, the return statement that
\* call left by, what is appended to parsed_logs, and the record itself as
\* it was supplied.
ParseEntry(log_entry) ==
  LET normalized_entry == NormalizeLogEntry(log_entry)
  IN  IF normalized_entry = None
      THEN [record |-> log_entry, reached |-> {"normalize"}, entry |-> None,
            returned_at |-> 0, appended |-> <<>>]
      ELSE IF ShouldIncludeLog(normalized_entry)
           THEN [record |-> log_entry,
                 reached |-> {"normalize", "filter", "process"},
                 entry |-> normalized_entry,
                 returned_at |-> ReturnLine(normalized_entry),
                 appended |-> <<ProcessLogEntry(normalized_entry)>>]
           ELSE [record |-> log_entry, reached |-> {"normalize", "filter"},
                 entry |-> normalized_entry,
                 returned_at |-> ReturnLine(normalized_entry),
                 appended |-> <<>>]

RECURSIVE Flatten(_)
Flatten(seqs) ==
  IF seqs = <<>> THEN <<>> ELSE Head(seqs) \o Flatten(Tail(seqs))

\* Mutant: the loop ends at the first record that cannot be normalized.
ParseAll_StopAtBad(logs) ==
  LET bad == {i \in 1..Len(logs) : NormalizeLogEntry(logs[i]) = None}
  IN  [i \in 1..(IF bad = {} THEN Len(logs) ELSE Min(bad)) |->
         ParseEntry(logs[i])]

\* The loop of parse_logs over the whole batch, one ParseEntry per record.
ParseAll(logs) == [i \in 1..Len(logs) |-> ParseEntry(logs[i])]

Appended(results) == Flatten([i \in 1..Len(results) |-> results[i].appended])

History(results) ==
  [i \in 1..Len(results) |->
     [record |-> results[i].record,
      reached |-> results[i].reached, entry |-> results[i].entry,
      returned_at |-> results[i].returned_at]]

----------------------------------------------------------------------------
(* Arbitrary-precision naturals: Python's int, and the significands of its   *)
(* floats. A number is the sequence of its base-2^15 digits, least           *)
(* significant first, without leading zero digits; zero is <<>>.             *)

Radix == 2^15

\* 2^n for n <= 15
Pow2(n) ==
  <<1, 2, 4, 8, 16, 32, 64, 128, 256, 512, 1024, 2048, 4096, 8192, 16384,
    32768>>[n + 1]

RECURSIVE BNorm(_)
BNorm(a) ==
  IF a = <<>> THEN <<>>
  ELSE IF a[Len(a)] = 0 THEN BNorm(SubSeq(a, 1, Len(a) - 1)) ELSE a

BFromInt(n) ==
  BNorm(<<n % Radix, (n \div Radix) % Radix, n \div (Radix * Radix)>>)

Digit(a, i) == IF i >= 1 /\ i <= Len(a) THEN a[i] ELSE 0

\* a + b: the carry chain runs from the least significant digit upwards
RECURSIVE BAddFrom(_, _, _, _)
BAddFrom(a, b, i, carry) ==
  IF i > Len(a) /\ i > Len(b)
  THEN IF carry = 0 THEN <<>> ELSE <<carry>>
  ELSE LET s == Digit(a, i) + Digit(b, i) + carry
       IN  <<s % Radix>> \o BAddFrom(a, b, i + 1, s \div Radix)

BAdd(a, b) == BAddFrom(a, b, 1, 0)

\* a - b for a >= b
RECURSIVE BSubFrom(_, _, _, _)
BSubFrom(a, b, i, borrow) ==
  IF i > Len(a) THEN <<>>
  ELSE LET s == Digit(a, i) - Digit(b, i) - borrow
       IN  IF s < 0 THEN <<s + Radix>> \o BSubFrom(a, b, i + 1, 1)
           ELSE <<s>> \o BSubFrom(a, b, i + 1, 0)

BSub(a, b) == BNorm(BSubFrom(a, b, 1, 0))

\* -1, 0, 1 as a < b, a = b, a > b
BCmp(a, b) ==
  IF Len(a) # Len(b) THEN (IF Len(a) < Len(b) THEN -1 ELSE 1)
  ELSE LET differ == {i \in 1..Len(a) : a[i] # b[i]}
       IN  IF differ = {} THEN 0
           ELSE LET i == CHOOSE j \in differ : \A k \in differ : k <= j
                IN  IF a[i] < b[i] THEN -1 ELSE 1

BLeq(a, b) == BCmp(a, b) # 1

\* a * k for a digit-sized k (0 <= k < Radix)
RECURSIVE BMulSmallFrom(_, _, _, _)
BMulSmallFrom(a, k, i, carry) ==
  IF i > Len(a)
  THEN IF carry = 0 THEN <<>> ELSE <<carry>>
  ELSE LET p == a[i] * k + carry
       IN  <<p % Radix>> \o BMulSmallFrom(a, k, i + 1, p \div Radix)

BMulSmall(a, k) == BNorm(BMulSmallFrom(a, k, 1, 0))

\* a * Radix^n
BShiftDigits(a, n) ==
  IF a = <<>> THEN <<>> ELSE [i \in 1..n |-> 0] \o a

RECURSIVE BMulFrom(_, _, _)
BMulFrom(a, b, i) ==
  IF i > Len(b) THEN <<>>
  ELSE BAdd(BShiftDigits(BMulSmall(a, b[i]), i - 1), BMulFrom(a, b, i + 1))

BMul(a, b) == BMulFrom(a, b, 1)

\* quotient and remainder of a by a digit-sized k > 0, most significant
\* digit first
RECURSIVE BDivSmallFrom(_, _, _, _)
BDivSmallFrom(a, k, i, rem) ==
  IF i = 0 THEN [q |-> <<>>, r |-> rem]
  ELSE LET cur == rem * Radix + a[i]
           rest == BDivSmallFrom(a, k, i - 1, cur % k)
       IN  [q |-> <<cur \div k>> \o rest.q, r |-> rest.r]

LeastSignificantFirst(digits) ==
  [i \in 1..Len(digits) |-> digits[Len(digits) + 1 - i]]

\* the digits of a quotient as a number, beside the remainder
Quotient(res) == [q |-> BNorm(LeastSignificantFirst(res.q)), r |-> res.r]

BDivModSmall(a, k) == Quotient(BDivSmallFrom(a, k, Len(a), 0))

\* a * 2^s and floor(a / 2^s)
BShl(a, s) == BShiftDigits(BMulSmall(a, Pow2(s % 15)), s \div 15)

BShr(a, s) ==
  LET d == s \div 15
  IN  IF d >= Len(a) THEN <<>>
      ELSE BDivModSmall(SubSeq(a, d + 1, Len(a)), Pow2(s % 15)).q

DigitBits(k) == CHOOSE n \in 0..15 : Pow2(n) > k /\ (n = 0 \/ Pow2(n - 1) <= k)

BitLen(a) ==
  IF a = <<>> THEN 0 ELSE 15 * (Len(a) - 1) + DigitBits(a[Len(a)])

BOdd(a) == a # <<>> /\ a[1] % 2 = 1

\* The largest digit-sized q with q * b <= cur, for cur < b * Radix and a
\* leading digit of b of at least Radix / 2: the quotient of the two leading
\* digits of cur by the leading digit of b is at most 2 too large.
QuotientDigit(cur, b) ==
  LET n == Len(b)
      leading == (Digit(cur, n + 1) * Radix + Digit(cur, n)) \div b[n]
      estimate == IF leading < Radix THEN leading ELSE Radix - 1
  IN  Max({q \in (estimate - 2)..estimate :
             q >= 0 /\ BLeq(BMulSmall(b, q), cur)})

\* long division in base 2^15, most significant digit first
RECURSIVE BDivFrom(_, _, _, _)
BDivFrom(a, b, i, rem) ==
  IF i = 0 THEN [q |-> <<>>, r |-> rem]
  ELSE LET cur == BNorm(<<a[i]>> \o rem)
           d == QuotientDigit(cur, b)
           rest == BDivFrom(a, b, i - 1, BSub(cur, BMulSmall(b, d)))
       IN  [q |-> <<d>> \o rest.q, r |-> rest.r]

\* quotient and remainder of a by b > 0: both are scaled so that the leading
\* digit of the divisor has its top bit set
Unscaled(res, scale) == [q |-> res.q, r |-> BShr(res.r, scale)]

BDivScaled(dividend, divisor, scale) ==
  Unscaled(Quotient(BDivFrom(dividend, divisor, Len(dividend), <<>>)), scale)

BDivBy(a, b, scale) == BDivScaled(BShl(a, scale), BShl(b, scale), scale)

BDivMod(a, b) == BDivBy(a, b, 15 - DigitBits(b[Len(b)]))

BToInt(a) == Digit(a, 1) + Radix * Digit(a, 2) + Radix * Radix * Digit(a, 3)

----------------------------------------------------------------------------
(* Python's float: an IEEE 754 binary64 number m * 2^e with a 53-bit         *)
(* significand m, or zero. Only non-negative, normal values occur here.      *)

PyFloat(m, e) == [kind |-> "float", m |-> m, e |-> e]

FZero == PyFloat(<<>>, 0)

\* round-half-even of p * 2^e0 to 53 significant bits
\* q, or q + 1 when the bits dropped from p compare (cmp) above half of the
\* last place kept, or equal to it while q is odd
HalfEven(q, cmp) ==
  IF cmp = 1 \/ (cmp = 0 /\ BOdd(q)) THEN BAdd(q, <<1>>) ELSE q

RoundedFrom(p, q, d) ==
  HalfEven(q, BCmp(BSub(p, BShl(q, d)), BShl(<<1>>, d - 1)))

\* round-half-even of p / 2^d for d > 0
BShrRound(p, d) == RoundedFrom(p, BShr(p, d), d)

\* a significand of 53 bits, or of 54 after a carry out of the rounding
Significand(m, e) ==
  IF BitLen(m) = 54 THEN PyFloat(BShr(m, 1), e + 1) ELSE PyFloat(m, e)

RoundBits(p, e0, lp) ==
  IF lp <= 53 THEN PyFloat(BShl(p, 53 - lp), e0 - (53 - lp))
  ELSE Significand(BShrRound(p, lp - 53), e0 + (lp - 53))

RoundInt(p, e0) == IF p = <<>> THEN FZero ELSE RoundBits(p, e0, BitLen(p))

\* round-half-even of (p / q) * 2^e0: 55 or 56 quotient bits and a sticky
\* bit for the remainder decide the rounding
SmallRemainder(sm) == [q |-> sm.q, r |-> BFromInt(sm.r)]

DivMod(num, den) ==
  IF Len(den) = 1 THEN SmallRemainder(BDivModSmall(num, den[1]))
  ELSE BDivMod(num, den)

Sticky(dm) == BAdd(BShl(dm.q, 1), IF dm.r = <<>> THEN <<>> ELSE <<1>>)

RoundShifted(p, q, e0, s) ==
  RoundInt(Sticky(DivMod(IF s >= 0 THEN BShl(p, s) ELSE p,
                         IF s >= 0 THEN q ELSE BShl(q, 0 - s))),
           e0 - s - 1)

RoundRat(p, q, e0) ==
  IF p = <<>> THEN FZero
  ELSE RoundShifted(p, q, e0, 55 + BitLen(q) - BitLen(p))

FromInt(n) == RoundInt(BFromInt(n), 0)

\* int / int
TrueDiv(a, b) == RoundRat(BFromInt(a), BFromInt(b), 0)

FAdd(x, y) ==
  IF x.m = <<>> THEN y
  ELSE IF y.m = <<>> THEN x
  ELSE LET emin == IF x.e < y.e THEN x.e ELSE y.e
       IN  RoundInt(BAdd(BShl(x.m, x.e - emin), BShl(y.m, y.e - emin)), emin)

FMul(x, y) == RoundInt(BMul(x.m, y.m), x.e + y.e)

FDiv(x, y) == RoundRat(x.m, y.m, x.e - y.e)

FCmp(x, y) ==
  IF x.m = <<>> \/ y.m = <<>>
  THEN (IF x.m = y.m THEN 0 ELSE IF x.m = <<>> THEN -1 ELSE 1)
  ELSE LET emin == IF x.e < y.e THEN x.e ELSE y.e
       IN  BCmp(BShl(x.m, x.e - emin), BShl(y.m, y.e - emin))

FLess(x, y) == FCmp(x, y) = -1

\* float // float for positive operands, then int(): float_divmod takes the
\* exact fmod, divides and corrects the quotient to the nearest whole number
\* below, which is the floor of the exact quotient of the two float values.
FloorDiv(x, y) ==
  IF x.m = <<>> THEN 0
  ELSE LET emin == IF x.e < y.e THEN x.e ELSE y.e
       IN  BToInt(BDivMod(BShl(x.m, x.e - emin), BShl(y.m, y.e - emin)).q)

\* round(x, 2): the exact value is rounded half-even to two decimals and the
\* decimal is converted back to the nearest float.
ScaledBy100(p, e) == IF e >= 0 THEN BShl(p, e) ELSE BShrRound(p, 0 - e)

Round2(x) ==
  IF x.m = <<>> THEN FZero
  ELSE RoundRat(ScaledBy100(BMulSmall(x.m, 100), x.e), <<100>>, 0)

----------------------------------------------------------------------------
(* datetime: the number of whole seconds since the epoch, in UTC *)

\* (later - earlier).total_seconds()
TotalSeconds(later, earlier) == FromInt(later.t - earlier.t)

\* datetime.timestamp()
Timestamp(timestamp) == FromInt(timestamp.t)

\* timestamp.replace(second=0, microsecond=0)
ReplaceSecond(timestamp) == PyDatetime(timestamp.t - (timestamp.t % 60))

----------------------------------------------------------------------------
(* Python list and dict operations of the analyzer *)

\* dict.get(key, default) on a dict that may lack the key
DictGet(d, key, default) == IF key \in DOMAIN d THEN d[key] ELSE default

\* list[:n]
Slice(list, n) ==
  IF n >= 0 THEN SubSeq(list, 1, IF n < Len(list) THEN n ELSE Len(list))
  ELSE SubSeq(list, 1, IF Len(list) + n > 0 THEN Len(list) + n ELSE 0)

\* The keys of a dict filled while iterating over a list: the distinct
\* values in the order of their first occurrence.
InsertionOrder(keys) ==
  LET first == {i \in 1..Len(keys) : \A j \in 1..(i - 1) : keys[j] # keys[i]}
  IN  [k \in 1..Cardinality(first) |->
         keys[CHOOSE i \in first : Cardinality({j \in first : j <= i}) = k]]

\* list.sort(key=..., reverse=True): before[i][j] holds when the key of
\* list[i] is greater than that of list[j]; elements with equal keys keep
\* their order (the sort is stable, also when reversed).
SortList(list, before) ==
  LET n == Len(list)
      rank == [i \in 1..n |->
                 Cardinality({j \in 1..n : before[j][i]})
                 + Cardinality({j \in 1..(i - 1) :
                                  ~before[i][j] /\ ~before[j][i]})
                 + 1]
  IN  [r \in 1..n |-> list[CHOOSE i \in 1..n : rank[i] = r]]

DecimalDigits == <<"0", "1", "2", "3", "4", "5", "6", "7", "8", "9">>

\* str(n) for n >= 0
RECURSIVE Decimal(_)
Decimal(n) ==
  IF n < 10 THEN <<DecimalDigits[n + 1]>>
  ELSE Decimal(n \div 10) \o <<DecimalDigits[(n % 10) + 1]>>

----------------------------------------------------------------------------
(* LogAnalyzer._analyze_errors *)

ErrorLevels == <<ERROR, CRITICAL>>

IsErrorLog(log) == InList(log.level, ErrorLevels)

ErrorLogs(logs) == SelectSeq(logs, IsErrorLog)

UnknownHost == PyStr(<<"u", "n", "k", "n", "o", "w", "n">>)

DefaultSeverity == 50

MessageHashOf(log) == DictGet(log, "message_hash", Hash(log.message))

\* error_groups: message hash -> list of records, in insertion order
ErrorGroups(error_logs) ==
  LET keys == InsertionOrder([i \in 1..Len(error_logs) |->
                                MessageHashOf(error_logs[i])])
  IN  [k \in 1..Len(keys) |->
         LET InGroup(log) == MessageHashOf(log) = keys[k]
         IN  [message_hash |-> keys[k],
              error_list |-> SelectSeq(error_logs, InGroup)]]

\* count / max(1, span in hours)
Frequency(count, hours) ==
  IF FLess(FromInt(1), hours) THEN FDiv(FromInt(count), hours)
  ELSE TrueDiv(count, 1)

FrequencyPerHour(count, first_occurrence, last_occurrence) ==
  Frequency(count, FDiv(TotalSeconds(last_occurrence, first_occurrence),
                        FromInt(3600)))

TopError(error_list) ==
  LET representative_error == error_list[1]
      count == Len(error_list)
      timestamps == {error_list[i].timestamp.t : i \in 1..count}
      first_occurrence == PyDatetime(Min(timestamps))
      last_occurrence == PyDatetime(Max(timestamps))
  IN  [kind |-> "dict",
       message |-> representative_error.message,
       simplified_message |->
         DictGet(representative_error, "simplified_message",
                 representative_error.message),
       count |-> count,
       level |-> representative_error.level,
       source |-> representative_error.source,
       error_type |-> DictGet(representative_error, "error_type", GeneralError),
       severity_score |->
         DictGet(representative_error, "severity_score", DefaultSeverity),
       first_occurrence |-> first_occurrence,
       last_occurrence |-> last_occurrence,
       affected_hosts |->
         Cardinality({DictGet(error_list[i], "hostname", UnknownHost) :
                        i \in 1..count}),
       frequency_per_hour |->
         FrequencyPerHour(count, first_occurrence, last_occurrence)]

\* Mutant: the severity does not break a tie of the counts.
RanksBefore_CountOnly(a, b) == a.count > b.count

\* the sort key (count, severity_score) of a is greater than that of b
RanksBefore(a, b) ==
  \/ a.count > b.count
  \/ a.count = b.count /\ a.severity_score > b.severity_score

\* top_errors.sort(key=lambda x: (x['count'], x['severity_score']),
\*                 reverse=True)
SortErrors(top_errors) ==
  SortList(top_errors,
           [i \in DOMAIN top_errors |->
              [j \in DOMAIN top_errors |->
                 RanksBefore(top_errors[i], top_errors[j])]])

TopErrors(error_groups) ==
  SortErrors([k \in 1..Len(error_groups) |->
                TopError(error_groups[k].error_list)])

\* the dict returned when there are error records
ErrorStats(error_logs, error_groups, top_errors, top_n) ==
  [kind |-> "dict",
   top_errors |-> Slice(top_errors, top_n),
   total_errors |-> Len(error_logs),
   unique_error_patterns |-> Len(error_groups),
   most_frequent_error |-> IF top_errors # <<>> THEN top_errors[1] ELSE None]

GroupedErrorStats(error_logs, error_groups, top_n) ==
  ErrorStats(error_logs, error_groups, TopErrors(error_groups), top_n)

AnalyzeErrors(logs, top_n) ==
  LET error_logs == ErrorLogs(logs)
  IN  IF error_logs = <<>>
      THEN [kind |-> "dict", top_errors |-> <<>>, error_patterns |-> EmptyDict,
            total_errors |-> 0]
      ELSE GroupedErrorStats(error_logs, ErrorGroups(error_logs), top_n)

----------------------------------------------------------------------------
(* LogAnalyzer._analyze_trends *)

InsufficientData == [kind |-> "dict", insufficient_data |-> TRUE]
InsufficientPeriods == [kind |-> "dict", insufficient_periods |-> TRUE]

\* The directions are Ukrainian in the source; they are transliterated here.
Stable == "stabilnyi"
Growing == "zrostaiuchyi"
Declining == "spadaiuchyi"

\* the float literals 1.2 and 0.8
GrowthFactor == TrueDiv(12, 10)
DeclineFactor == TrueDiv(8, 10)

\* sorted_logs[-1]['timestamp'] - sorted_logs[0]['timestamp']
TotalDuration(logs) ==
  LET times == {logs[i].timestamp.t : i \in 1..Len(logs)}
  IN  TotalSeconds(PyDatetime(Max(times)), PyDatetime(Min(times)))

\* Mutant: a period is an hour, however long the span is.
PeriodSeconds_Hour(total_seconds) == FromInt(3600)

\* Mutant: a hundredth of the span, also when it is less than an hour.
PeriodSeconds_Hundredth(total_seconds) ==
  FMul(FDiv(total_seconds, FromInt(100)), FromInt(60))

\* max(60, total_seconds / 100) * 60: the int 3600 unless the quotient
\* exceeds 60
PeriodMinutes(hundredth) ==
  IF FLess(FromInt(60), hundredth) THEN FMul(hundredth, FromInt(60))
  ELSE FromInt(3600)

PeriodSeconds(total_seconds) ==
  PeriodMinutes(FDiv(total_seconds, FromInt(100)))

PeriodKey(log, period_seconds) ==
  FloorDiv(Timestamp(log.timestamp), period_seconds)

\* periods: period key -> totals, as a function on the keys that occur
Periods(logs, period_seconds) ==
  LET key == [i \in 1..Len(logs) |-> PeriodKey(logs[i], period_seconds)]
  IN  [k \in {key[i] : i \in 1..Len(logs)} |->
         [total |-> Cardinality({i \in 1..Len(logs) : key[i] = k}),
          errors |-> Cardinality({i \in 1..Len(logs) :
                                    key[i] = k /\ IsErrorLog(logs[i])})]]

\* sorted(periods.items()): the keys in increasing order
PeriodItems(periods) ==
  LET keys == DOMAIN periods
  IN  [r \in 1..Cardinality(keys) |->
         CHOOSE k \in keys : Cardinality({j \in keys : j <= k}) = r]

ErrorRate(period_data) ==
  TrueDiv(period_data.errors,
          IF period_data.total > 1 THEN period_data.total ELSE 1)

\* sum(rates): the int 0 plus the floats, left to right. (The compensated
\* summation of newer interpreters returns the same float for the one or
\* two rates a half can hold.)
RECURSIVE Sum(_)
Sum(rates) ==
  IF rates = <<>> THEN FZero
  ELSE FAdd(Sum(SubSeq(rates, 1, Len(rates) - 1)), rates[Len(rates)])

Average(rates) == FDiv(Sum(rates), FromInt(Len(rates)))

TrendDirection(avg_first, avg_second) ==
  IF FLess(FMul(avg_first, GrowthFactor), avg_second) THEN Growing
  ELSE IF FLess(avg_second, FMul(avg_first, DeclineFactor)) THEN Declining
  ELSE Stable

\* the dict returned for three periods or more
TrendStats(periods, n, avg_first, avg_second) ==
  [kind |-> "dict",
   trend_direction |-> TrendDirection(avg_first, avg_second),
   periods_analyzed |-> n,
   average_error_rate_first_half |-> Round2(FMul(avg_first, FromInt(100))),
   average_error_rate_second_half |-> Round2(FMul(avg_second, FromInt(100))),
   period_data |-> periods]

\* first_half = error_rates[:n // 2], second_half = error_rates[n // 2:]
HalvesTrend(periods, error_rates, n) ==
  TrendStats(periods, n,
             Average(SubSeq(error_rates, 1, n \div 2)),
             Average(SubSeq(error_rates, (n \div 2) + 1, n)))

SortedTrend(periods, period_items) ==
  IF Len(period_items) < 3 THEN InsufficientPeriods
  ELSE HalvesTrend(periods,
                   [r \in 1..Len(period_items) |->
                      ErrorRate(periods[period_items[r]])],
                   Len(period_items))

PeriodsTrend(periods) == SortedTrend(periods, PeriodItems(periods))

\* the period length is a value before the loop over the records
DurationTrend(logs, total_duration) ==
  IF FLess(total_duration, FromInt(3600)) THEN InsufficientData
  ELSE PeriodsTrend(CHOOSE periods \in
                      {Periods(logs, period_seconds) :
                         period_seconds \in {PeriodSeconds(total_duration)}} :
                      TRUE)

AnalyzeTrends(logs) ==
  IF Len(logs) < 2 THEN EmptyDict
  ELSE DurationTrend(logs, TotalDuration(logs))

----------------------------------------------------------------------------
(* LogAnalyzer._find_critical_events *)

BurstThreshold == 10
CriticalEventsMax == 20
DescriptionMax == 100

CriticalPrefix == <<"U+041A", "U+0440", "U+0438", "U+0442", "U+0438", "U+0447", "U+043D", "U+0430", " ", "U+043F", "U+043E", "U+043C", "U+0438", "U+043B", "U+043A", "U+0430", " ", "U+0432", " ">>
BurstPrefix == <<"U+0412", "U+0438", "U+0441", "U+043E", "U+043A", "U+043E", "U+0447", "U+0430", "U+0441", "U+0442", "U+043E", "U+0442", "U+043D", "U+0456", " ", "U+043F", "U+043E", "U+043C", "U+0438", "U+043B", "U+043A", "U+0438", ":", " ">>
BurstSuffix == <<" ", "U+043F", "U+043E", "U+043C", "U+0438", "U+043B", "U+043E", "U+043A", " ", "U+0437", "U+0430", " ", "U+0445", "U+0432", "U+0438", "U+043B", "U+0438", "U+043D", "U+0443">>

\* Mutant: the event carries the minute of the record, not its timestamp.
CriticalEvent_MinuteStamp(log) ==
  [kind |-> "dict",
   type |-> "critical_error",
   timestamp |-> ReplaceSecond(log.timestamp),
   description |->
     CriticalPrefix \o log.source \o <<":", " ">>
     \o Slice(DictGet(log, "simplified_message", log.message), DescriptionMax),
   severity |-> "high",
   source |-> log.source]

CriticalEvent(log) ==
  [kind |-> "dict",
   type |-> "critical_error",
   timestamp |-> log.timestamp,
   description |->
     CriticalPrefix \o log.source \o <<":", " ">>
     \o Slice(DictGet(log, "simplified_message", log.message), DescriptionMax),
   severity |-> "high",
   source |-> log.source]

BurstEvent(minute, errors) ==
  [kind |-> "dict",
   type |-> "high_frequency_errors",
   timestamp |-> minute,
   description |-> BurstPrefix \o Decimal(Len(errors)) \o BurstSuffix,
   severity |-> "medium",
   count |-> Len(errors)]

CriticalLogs(logs) ==
  LET IsCritical(log) == log.level = CRITICAL
  IN  SelectSeq(logs, IsCritical)

\* error_frequency: minute -> list of records, in insertion order
ErrorFrequency(logs) ==
  LET error_logs == ErrorLogs(logs)
      minutes == InsertionOrder([i \in 1..Len(error_logs) |->
                                   ReplaceSecond(error_logs[i].timestamp)])
  IN  [k \in 1..Len(minutes) |->
         LET InMinute(log) == ReplaceSecond(log.timestamp) = minutes[k]
         IN  [minute |-> minutes[k],
              errors |-> SelectSeq(error_logs, InMinute)]]

\* Mutant: a burst needs more than ten records.
IsBurst_MoreThan(errors) == Len(errors) > BurstThreshold

IsBurst(errors) == Len(errors) >= BurstThreshold

BurstEvents(logs) ==
  LET error_frequency == ErrorFrequency(logs)
      Frequent(bucket) == IsBurst(bucket.errors)
      frequent == SelectSeq(error_frequency, Frequent)
  IN  [k \in 1..Len(frequent) |->
         BurstEvent(frequent[k].minute, frequent[k].errors)]

\* the timestamp of a is later than that of b
Later(a, b) == a.timestamp.t > b.timestamp.t

\* critical_events.sort(key=lambda x: x['timestamp'], reverse=True)
SortEvents(events) ==
  SortList(events,
           [i \in DOMAIN events |->
              [j \in DOMAIN events |-> Later(events[i], events[j])]])

\* Mutant: the events are cut to twenty before they are sorted.
FindCriticalEvents_CutFirst(logs) ==
  LET critical_logs == CriticalLogs(logs)
      critical_events ==
        [i \in 1..Len(critical_logs) |-> CriticalEvent(critical_logs[i])]
        \o BurstEvents(logs)
  IN  SortEvents(Slice(critical_events, CriticalEventsMax))

FindCriticalEvents(logs) ==
  LET critical_logs == CriticalLogs(logs)
      critical_events ==
        [i \in 1..Len(critical_logs) |-> CriticalEvent(critical_logs[i])]
        \o BurstEvents(logs)
  IN  Slice(SortEvents(critical_events), CriticalEventsMax)

----------------------------------------------------------------------------
(* LogAnalyzer._calculate_general_stats, _analyze_by_level and              *)
(* _analyze_error_types                                                     *)

\* Counter(values): the distinct values in the order of their first
\* occurrence, each with the number of its occurrences.
Counter(values) ==
  LET keys == InsertionOrder(values)
  IN  [k \in 1..Len(keys) |->
         [key |-> keys[k],
          count |-> Cardinality({i \in 1..Len(values) : values[i] = keys[k]})]]

\* counter.get(key, 0)
CounterGet(counter, key) ==
  IF \E k \in DOMAIN counter : counter[k].key = key
  THEN counter[CHOOSE k \in DOMAIN counter : counter[k].key = key].count
  ELSE 0

\* counter.most_common(1)[0] if counter else default: the first entry among
\* those of the largest count
MostCommon(counter, default) ==
  IF counter = <<>> THEN default
  ELSE LET largest == {k \in DOMAIN counter :
                         \A j \in DOMAIN counter :
                           counter[j].count <= counter[k].count}
       IN  <<counter[Min(largest)].key, counter[Min(largest)].count>>

\* Mutant: the fraction is rounded, not the percentage.
Percentage_Fraction(count, total) == Round2(TrueDiv(count, total))

\* round((count / total) * 100, 2)
Percentage(count, total) ==
  Round2(FMul(TrueDiv(count, total), FromInt(100)))

\* the buckets of a counter: key -> {count, percentage}, in insertion order
Buckets(counter, total) ==
  [k \in DOMAIN counter |->
     [key |-> counter[k].key,
      count |-> counter[k].count,
      percentage |-> Percentage(counter[k].count, total)]]

ZeroDivisionError == [kind |-> "ZeroDivisionError"]

\* sum(log.get('severity_score', 50) for log in logs[:n])
RECURSIVE SeveritySum(_, _)
SeveritySum(logs, n) ==
  IF n = 0 THEN 0
  ELSE SeveritySum(logs, n - 1)
       + DictGet(logs[n], "severity_score", DefaultSeverity)

CalculateGeneralStats(logs) ==
  IF logs = <<>> THEN EmptyDict
  ELSE LET timestamps == {logs[i].timestamp.t : i \in DOMAIN logs}
           start == PyDatetime(Min(timestamps))
           end == PyDatetime(Max(timestamps))
       IN  [kind |-> "dict",
            total_logs |-> Len(logs),
            date_range |->
              [start |-> start,
               end |-> end,
               duration_hours |-> FDiv(TotalSeconds(end, start), FromInt(3600))],
            unique_sources |->
              Cardinality({logs[i].source : i \in DOMAIN logs}),
            unique_hosts |->
              Cardinality({DictGet(logs[i], "hostname", UnknownHost) :
                             i \in DOMAIN logs}),
            average_severity |-> TrueDiv(SeveritySum(logs, Len(logs)), Len(logs))]

\* analyze calls this with a non-empty list only; on an empty one the
\* division of error_ratio raises.
AnalyzeByLevel(logs) ==
  LET level_counter == Counter([i \in DOMAIN logs |-> logs[i].level])
      total_logs == Len(logs)
  IN  [kind |-> "dict",
       by_level |-> Buckets(level_counter, total_logs),
       most_common_level |-> MostCommon(level_counter, <<INFO, 0>>),
       error_ratio |->
         IF total_logs = 0 THEN ZeroDivisionError
         ELSE Round2(FMul(TrueDiv(CounterGet(level_counter, ERROR)
                                  + CounterGet(level_counter, CRITICAL),
                                  total_logs),
                          FromInt(100)))]

AnalyzeErrorTypes(logs) ==
  LET error_logs == ErrorLogs(logs)
      type_counter ==
        Counter([i \in DOMAIN error_logs |->
                   DictGet(error_logs[i], "error_type", GeneralError)])
      total_errors == Len(error_logs)
  IN  IF error_logs = <<>> THEN EmptyDict
      ELSE [kind |-> "dict",
            by_type |-> Buckets(type_counter, total_errors),
            most_common_type |-> MostCommon(type_counter, <<GeneralError, 0>>),
            total_types |-> Len(type_counter)]

----------------------------------------------------------------------------
(* LogAnalyzer.analyze *)

\* The sub-reports of the result that are modelled: general, level, error
\* and error-type statistics, trends and critical events, and the time the
\* analysis was made. The statistics by time and by source are left out.
Results(logs, top_n, now) ==
  [kind |-> "dict",
   general_stats |-> CalculateGeneralStats(logs),
   level_stats |-> AnalyzeByLevel(logs),
   error_stats |-> AnalyzeErrors(logs, top_n),
   error_types |-> AnalyzeErrorTypes(logs),
   trends |-> AnalyzeTrends(logs),
   critical_events |-> FindCriticalEvents(logs),
   analysis_timestamp |-> PyDatetime(now)]

----------------------------------------------------------------------------
(* LogParser.__init__ *)

PyList(items) == [kind |-> "list", items |-> items]

Truthy(value) == value.kind = "list" /\ value.items # <<>>

\* x or default
Or(value, default) == IF Truthy(value) THEN value.items ELSE default

\* Mutant: the default levels of the constructor's docstring.
DefaultFilterLevels_Docstring == <<ERROR, CRITICAL>>

DefaultFilterLevels == <<ERROR, CRITICAL, WARNING>>

\* Mutant: the keywords of the caller replace the built-in ones.
IncludeKeywords_UserOnly(include_arg) ==
  Or(include_arg, ERROR_KEYWORDS \o WARNING_KEYWORDS)

\* (include_keywords or []) + self.ERROR_KEYWORDS + self.WARNING_KEYWORDS
IncludeKeywords(include_arg) ==
  Or(include_arg, <<>>) \o ERROR_KEYWORDS \o WARNING_KEYWORDS

Construct(levels_arg, include_arg, exclude_arg) ==
  /\ filter_levels = Or(levels_arg, DefaultFilterLevels)
  /\ include_keywords = IncludeKeywords(include_arg)
  /\ exclude_keywords = Or(exclude_arg, <<>>)

----------------------------------------------------------------------------
(* Inputs *)

MaxBatch == 2
MaxClock == 1

RawRecord(timestamp, level, message, hostname) ==
  [kind |-> "dict", timestamp |-> timestamp, level |-> level,
   source |-> PyStr(<<"a", "p", "p">>), message |-> message,
   hostname |-> hostname, pid |-> Absent, user |-> Absent,
   event_id |-> Absent, category |-> Absent, log_source |-> Absent,
   unit |-> Absent, computer |-> Absent, raw_data |-> Absent]

NOTICE == <<"N", "o", "t", "i", "c", "e">>
HealthCheck == <<"S", "y", "s", "t", "e", "m", " ", "h", "e", "a", "l", "t", "h", " ", "c", "h", "e", "c", "k", " ", "c", "o", "m", "p", "l", "e", "t", "e", "d", " ", "s", "u", "c", "c", "e", "s", "s", "f", "u", "l", "l", "y">>
Host == PyStr(<<"h", "1">>)

RawRecords ==
  { RawRecord(PyDatetime(0), PyStr(INFO), PyStr(HealthCheck), Host),
    RawRecord(PyDatetime(0), PyStr(ERROR), PyStr(<<"[", "1", ".", "2", "]">>), Host),
    RawRecord(PyDatetime(1), PyStr(Lower(ERROR)),
              PyStr(<<" ", "C", "o", "n", "n", "e", "c", "t", "i", "o", "n", " ", " ", "t", "i", "m", "e", "o", "u", "t", " ", "t", "o", " ", "D", "B", " ">>), Absent),
    RawRecord(PyDatetime(1), PyStr(WARNING), PyStr(<<"D", "i", "s", "k", " ", "u", "s", "a", "g", "e", " ", "h", "i", "g", "h">>), Host),
    RawRecord(PyDatetime(2), PyStr(WARNING), PyStr(<<"r", "e", "t", "r", "y", " ", "l", "a", "t", "e", "r">>), Host),
    RawRecord(PyDatetime(2), Absent, PyStr(<<"l", "o", "g", "i", "n", " ", "F", "a", "i", "l", "e", "d">>), Absent),
    RawRecord(PyDatetime(3), PyStr(NOTICE), PyStr(<<"e", "r", "r", " ", "5">>), Host),
    RawRecord(PyDatetime(3), PyStr(DEBUG), PyStr(<<"o", "k">>), Host),
    RawRecord(PyDatetime(4), PyStr(CRITICAL), PyStr(<<"<", "<">>), Host),
    RawRecord(PyDatetime(4), PyStr(CRITICAL), PyStr(<<" ", "\t", " ">>), Host),
    RawRecord(PyDatetime(5), PyStr(ERROR), Absent, Host),
    RawRecord(PyDatetime(5), PyStr(ERROR), None, Host),
    RawRecord(Absent, PyStr(ERROR), PyStr(<<"d", "i", "s", "k", " ", "f", "a", "i", "l", "u", "r", "e">>), Host),
    RawRecord(None, PyStr(ERROR), PyStr(<<"f", "a", "t", "a", "l", " ", "c", "r", "a", "s", "h">>), Host),
    RawRecord(PyStr(<<"2", "0", "2", "4", "-", "0", "1", "-", "0", "1">>), PyStr(CRITICAL),
              PyStr(<<"k", "e", "r", "n", "e", "l", " ", "p", "a", "n", "i", "c">>), Host),
    None }

BatchesOf(records, n) == UNION {[1..k -> records] : k \in 0..n}

Batches == BatchesOf(RawRecords, MaxBatch)

Policies ==
  { <<None, None, None>>,
    <<PyList(<<>>), PyList(<<>>), PyList(<<>>)>>,
    <<PyList(<<INFO, DEBUG>>), PyList(<<<<"H", "e", "a", "l", "t", "h">>>>),
      PyList(<<<<"D", "B">>>>)>> }

----------------------------------------------------------------------------
(* The parser as a state machine *)

\* No call of analyze has returned yet.
NoCall == [kind |-> "no call"]

\* LogAnalyzer(): the analyzer a run constructs
ConstructAnalyzer ==
  /\ analysis_results = EmptyDict
  /\ analyzed_logs = <<>>
  /\ analyzed_top_n = 0
  /\ analyze_result = NoCall

\* main() has not been called.
NotReturned == [kind |-> "not returned"]

MainNotCalled ==
  /\ main_pc = "start"
  /\ args_top = 0
  /\ main_logs = <<>>
  /\ called = <<>>
  /\ console = <<>>
  /\ returned = NotReturned

InitWith(policies) ==
  /\ init_args \in policies
  /\ Construct(init_args[1], init_args[2], init_args[3])
  /\ pc = "idle"
  /\ raw_logs = <<>>
  /\ parsed_logs = <<>>
  /\ stages = <<>>
  /\ ConstructAnalyzer
  /\ clock = 0
  /\ MainNotCalled

ParseLogs(logs) ==
  /\ pc = "idle"
  /\ pc' = "returned"
  /\ raw_logs' = logs
  /\ LET results == ParseAll(logs)
     IN  /\ parsed_logs' = Appended(results)
         /\ stages' = History(results)
  /\ UNCHANGED <<filter_levels, include_keywords, exclude_keywords, init_args>>
  /\ UNCHANGED <<analyzer_vars, main_vars>>

\* The caller is done with the returned list; the parser can be called again.
Finish ==
  /\ pc = "returned"
  /\ pc' = "idle"
  /\ raw_logs' = <<>>
  /\ parsed_logs' = <<>>
  /\ stages' = <<>>
  /\ UNCHANGED <<filter_levels, include_keywords, exclude_keywords, init_args>>
  /\ UNCHANGED <<analyzer_vars, main_vars>>

\* LogParser(levels, include, exclude): the caller constructs another parser
\* and uses it from now on; a list an earlier parser returned stays as it is.
Reconstruct(args) ==
  /\ init_args' = args
  /\ filter_levels' = Or(args[1], DefaultFilterLevels)
  /\ include_keywords' = IncludeKeywords(args[2])
  /\ exclude_keywords' = Or(args[3], <<>>)
  /\ UNCHANGED <<pc, raw_logs, parsed_logs, stages>>
  /\ UNCHANGED <<analyzer_vars, main_vars>>

\* Time passes.
Tick ==
  /\ clock < MaxClock
  /\ clock' = clock + 1
  /\ UNCHANGED <<parser_vars, analysis_results, analyzed_logs, analyzed_top_n,
                 analyze_result, main_vars>>

\* Mutant: the results are assembled and returned for an empty list too.
ReturnValue_AlwaysResults(logs, results) == results

\* what analyze returns: {} for an empty list, else the results
ReturnValue(logs, results) == IF logs = <<>> THEN EmptyDict ELSE results

\* what analyze leaves in self.analysis_results
StoredResults(logs, results, previous) == IF logs = <<>> THEN previous ELSE results

\* LogAnalyzer.analyze(logs, top_n)
Analyze(logs, top_n) ==
  /\ LET results == Results(logs, top_n, clock)
     IN  /\ analysis_results' = StoredResults(logs, results, analysis_results)
         /\ analyze_result' = ReturnValue(logs, results)
  /\ analyzed_logs' = logs
  /\ analyzed_top_n' = top_n
  /\ UNCHANGED <<parser_vars, clock, main_vars>>

\* the list in reverse order
Reversed(list) == [i \in DOMAIN list |-> list[Len(list) + 1 - i]]

\* Mutant: analyze turns the list it is given around, in place.
AnalyzeParsed_InPlace(top_n) ==
  /\ pc = "returned"
  /\ LET logs == Reversed(parsed_logs)
         results == Results(logs, top_n, clock)
     IN  /\ analysis_results' = StoredResults(logs, results, analysis_results)
         /\ analyze_result' = ReturnValue(logs, results)
         /\ analyzed_logs' = logs
         /\ parsed_logs' = logs
  /\ analyzed_top_n' = top_n
  /\ UNCHANGED <<filter_levels, include_keywords, exclude_keywords, pc,
                 raw_logs, stages, init_args, clock, main_vars>>

\* analyzer.analyze(parsed_logs, top_n): the list parse_logs returned is
\* handed to the analyzer.
AnalyzeParsed(top_n) ==
  /\ pc = "returned"
  /\ Analyze(parsed_logs, top_n)

\* analyzer = LogAnalyzer(); analyzer.analyze(logs, top_n): a run analyses
\* one list with an analyzer of its own.
RunAnalysis(logs, top_n) ==
  /\ analyze_result = NoCall
  /\ Analyze(logs, top_n)

\* The run is over; the next run constructs its own analyzer.
EndRun ==
  /\ analyze_result # NoCall
  /\ analysis_results' = EmptyDict
  /\ analyzed_logs' = <<>>
  /\ analyzed_top_n' = 0
  /\ analyze_result' = NoCall
  /\ UNCHANGED <<parser_vars, clock, main_vars>>

Init == InitWith(Policies)

Next ==
  \/ \E logs \in Batches : ParseLogs(logs)
  \/ Finish

Spec == Init /\ [][Next]_vars

----------------------------------------------------------------------------
(* Inputs of the specifications that exercise one stage each: single-record *)
(* batches whose messages are built from a few fragments.                   *)

MaxCleanFrags == 3
MaxFilterFrags == 2
MaxEnrichFrags == 2
MaxSlots == 3

TextsOf(fragments, n) ==
  {Flatten(f) : f \in UNION {[1..k -> fragments] : k \in 0..n}}

Single(records) == {<<r>> : r \in records}

\* Cleaning: whitespace, kernel timestamps and framing characters.
CleanFragments ==
  {<<" ">>,
   <<"\t">>,
   <<"[", "1", "2", ".", "5", "]">>,
   <<"[", "1", "]">>,
   <<"<">>,
   <<">">>,
   <<"x">>}

CleanBatches ==
  Single({RawRecord(PyDatetime(0), PyStr(ERROR), PyStr(m), Host) :
            m \in TextsOf(CleanFragments, MaxCleanFrags)})

CleanPolicies == {<<None, None, None>>}

InitClean == InitWith(CleanPolicies)

NextClean ==
  \/ \E logs \in CleanBatches : ParseLogs(logs)
  \/ Finish

SpecClean == InitClean /\ [][NextClean]_vars

\* Filtering: levels, built-in and configured keywords in either case.
FilterFragments ==
  {<<"T", "i", "m", "e", "o", "u", "t">>,
   <<"d", "i", "s", "k">>,
   <<"r", "e", "t", "r", "y">>,
   <<"o", "k">>,
   <<" ">>,
   <<"U+0417", "U+0431", "U+0456", "U+0439">>}

FilterLevels == {PyStr(ERROR), PyStr(CRITICAL), PyStr(WARNING), Absent, PyStr(NOTICE)}

FilterRecords ==
  {RawRecord(PyDatetime(0), l, PyStr(m), Host) :
     l \in FilterLevels, m \in TextsOf(FilterFragments, MaxFilterFrags)}
  \cup
  {RawRecord(PyDatetime(0), PyStr(INFO), PyStr(HealthCheck), Host),
   RawRecord(None, PyStr(ERROR), PyStr(<<"T", "i", "m", "e", "o", "u", "t">>), Host)}

FilterBatches == Single(FilterRecords)

FilterPolicies ==
  {<<l, i, e>> :
     l \in {None, PyList(<<ERROR>>), PyList(<<INFO, DEBUG>>)},
     i \in {None, PyList(<<<<"D", "i", "s", "k">>>>)},
     e \in {None, PyList(<<<<"T", "i", "m", "e", "o", "u", "t">>>>),
            PyList(<<<<"d", "i", "s", "k">>, <<"R", "E", "T", "R", "Y">>>>)}}

InitFilter == InitWith(FilterPolicies)

NextFilter ==
  \/ \E logs \in FilterBatches : ParseLogs(logs)
  \/ Finish

SpecFilter == InitFilter /\ [][NextFilter]_vars

\* Keyword configurations that grow: no, one and two keywords of the caller
\* to include and to exclude, under the default and under other levels.
KeywordPolicies ==
  {<<l, i, e>> :
     l \in {None, PyList(<<INFO, DEBUG>>)},
     i \in {None, PyList(<<<<"D", "i", "s", "k">>>>),
            PyList(<<<<"D", "i", "s", "k">>, <<"o", "k">>>>)},
     e \in {None, PyList(<<<<"T", "i", "m", "e", "o", "u", "t">>>>),
            PyList(<<<<"T", "i", "m", "e", "o", "u", "t">>,
                     <<"R", "E", "T", "R", "Y">>>>)}}

MaxKeywordFrags == 2

\* Messages with and without the keywords of the caller and built-in ones.
KeywordFragments ==
  {<<"T", "i", "m", "e", "o", "u", "t">>,
   <<"d", "i", "s", "k">>,
   <<"r", "e", "t", "r", "y">>,
   <<" ", "o", "k">>}

KeywordRecords ==
  {RawRecord(PyDatetime(0), l, PyStr(m), Host) :
     l \in {PyStr(ERROR), PyStr(WARNING), PyStr(INFO)},
     m \in TextsOf(KeywordFragments, MaxKeywordFrags)}

KeywordBatches == Single(KeywordRecords)

InitKeywords == InitWith(KeywordPolicies)

NextKeywords ==
  \/ \E logs \in KeywordBatches : ParseLogs(logs)
  \/ Finish
  \/ \E args \in KeywordPolicies : Reconstruct(args)

SpecKeywords == InitKeywords /\ [][NextKeywords]_vars

\* Enrichment: category words and critical keywords at every level.
EnrichFragments ==
  {<<"C", "o", "n", "n", "e", "c", "t", "i", "o", "n">>,
   <<"d", "i", "s", "k">>,
   <<"d", "e", "n", "i", "e", "d">>,
   <<"c", "r", "a", "s", "h">>,
   <<"k", "e", "r", "n", "e", "l">>,
   <<"x">>,
   <<"c", "r", "i", "t", "i", "c", "a", "l">>,
   <<"F", "A", "T", "A", "L">>,
   <<"p", "a", "n", "i", "c">>,
   <<"c", "o", "r", "r", "u", "p", "t", "i", "o", "n">>}

EnrichLevels ==
  {PyStr(CRITICAL), PyStr(ERROR), PyStr(WARNING), PyStr(INFO), PyStr(DEBUG),
   PyStr(NOTICE)}

EnrichBatches ==
  Single({RawRecord(PyDatetime(0), l, PyStr(m), Host) :
            l \in EnrichLevels, m \in TextsOf(EnrichFragments, MaxEnrichFrags)})

EnrichPolicies ==
  {<<PyList(<<CRITICAL, ERROR, WARNING, INFO, DEBUG, Upper(NOTICE)>>),
     PyList(<<<<"c", "o", "n", "n", "e", "c", "t", "i", "o", "n">>, <<"d", "i", "s", "k">>, <<"c", "r", "a", "s", "h">>, <<"k", "e", "r", "n", "e", "l">>, <<"x">>>>),
     None>>}

InitEnrich == InitWith(EnrichPolicies)

NextEnrich ==
  \/ \E logs \in EnrichBatches : ParseLogs(logs)
  \/ Finish

SpecEnrich == InitEnrich /\ [][NextEnrich]_vars

\* Grouping: two ERROR records whose messages fill the same template, the
\* slots separated by one space; a slot is literal text or a variable token
\* (a run of digits, a path, a hexadecimal id) that each record fills in its
\* own way.
HashLiterals ==
  {<<"j", "o", "b">>,
   <<"f", "a", "i", "l", "e", "d">>,
   <<"x">>}

HashKinds == {"digits", "path", "hex"}

Filling(digits, path, hex) ==
  [k \in HashKinds |->
     IF k = "digits" THEN digits ELSE IF k = "path" THEN path ELSE hex]

Fillings ==
  <<Filling(<<"7">>, <<"/", "t", "m", "p">>, <<"d", "e", "a", "d", "b", "e", "e", "f">>),
   Filling(<<"4", "0", "9", "6">>, <<"/", "v", "a", "r", "/", "l", "o", "g", "/", "a", ".", "1">>, <<"D", "E", "A", "D", "B", "E", "E", "F", "9", "9">>),
   Filling(<<"7">>, <<"/", "t", "m", "p">>, <<"0", "x", "1", "F">>),
   Filling(<<"7">>, <<"/", "t", "m", "p">>, <<"0", "x", "F", "F">>),
   Filling(<<"7">>, <<"/", "t", "m", "p">>, <<"1", "2", "3", "4", "a", "b", "c", "d">>)>>

FillingPairs ==
  {<<Fillings[i], Fillings[j]>> : i, j \in DOMAIN Fillings} \ {<<f, f>> : f \in {Fillings[i] : i \in DOMAIN Fillings}}

HashSlots ==
  {[kind |-> "literal", text |-> t] : t \in HashLiterals}
  \cup {[kind |-> k, text |-> <<>>] : k \in HashKinds}

HashTemplates == UNION {[1..k -> HashSlots] : k \in 1..MaxSlots}

RECURSIVE JoinWithSpace(_)
JoinWithSpace(parts) ==
  IF Len(parts) = 0 THEN <<>>
  ELSE IF Len(parts) = 1 THEN parts[1]
  ELSE parts[1] \o <<" ">> \o JoinWithSpace(Tail(parts))

Fill(template, filling) ==
  JoinWithSpace([k \in 1..Len(template) |->
                   IF template[k].kind \in HashKinds
                   THEN filling[template[k].kind]
                   ELSE template[k].text])

HashBatches ==
  {<<RawRecord(PyDatetime(0), PyStr(ERROR), PyStr(Fill(t, f[1])), Host),
     RawRecord(PyDatetime(1), PyStr(ERROR), PyStr(Fill(t, f[2])), Host)>> :
     t \in HashTemplates, f \in FillingPairs}

HashPolicies == {<<None, None, None>>}

InitHash == InitWith(HashPolicies)

NextHash ==
  \/ \E logs \in HashBatches : ParseLogs(logs)
  \/ Finish

SpecHash == InitHash /\ [][NextHash]_vars

----------------------------------------------------------------------------
(* Inputs of the analyzer: records as parse_logs enriches them *)

MaxTopN == 2
MaxPipelineBatch == 1
MaxErrorLogs == 3
MaxRuns == 2
MaxTotal == 5

\* the default of the parameter top_n
DefaultTopN == 10

TopNs == 0..MaxTopN

DefaultPolicies == {<<None, None, None>>}

\* what parse_logs appends for a usable record that passes the filter
Enriched(level, message, hostname) ==
  ProcessLogEntry(NormalizeLogEntry(
    RawRecord(PyDatetime(0), PyStr(level), PyStr(message), hostname)))

ConnectionTimeout == Enriched(ERROR, <<"C", "o", "n", "n", "e", "c", "t", "i", "o", "n", " ", "t", "i", "m", "e", "o", "u", "t", " ", "t", "o", " ", "d", "b">>, Host)
DiskFull == Enriched(ERROR, <<"d", "i", "s", "k", " ", "f", "u", "l", "l">>, Absent)
DiskFullCritical == Enriched(CRITICAL, <<"D", "i", "s", "k", " ", "F", "U", "L", "L">>, Host)
KernelPanic == Enriched(CRITICAL, <<"k", "e", "r", "n", "e", "l", " ", "p", "a", "n", "i", "c">>, Host)
RetryWarning == Enriched(WARNING, <<"r", "e", "t", "r", "y", " ", "t", "i", "m", "e", "o", "u", "t">>, Host)

\* the record with another timestamp
At(log, t) == [log EXCEPT !.timestamp = PyDatetime(t)]

\* count records, the first at start and each step seconds after the last
Run(log, count, start, step) ==
  [j \in 1..count |-> At(log, start + (j - 1) * step)]

----------------------------------------------------------------------------
(* The pipeline: parse_logs, then analyze on the list it returned, run      *)
(* after run on one parser and one analyzer.                                *)

PipelineRecords ==
  {RawRecord(PyDatetime(0), PyStr(ERROR), PyStr(<<"C", "o", "n", "n", "e", "c", "t", "i", "o", "n", " ", "t", "i", "m", "e", "o", "u", "t", " ", "t", "o", " ", "d", "b">>), Host),
   RawRecord(PyDatetime(60), PyStr(CRITICAL), PyStr(<<"k", "e", "r", "n", "e", "l", " ", "p", "a", "n", "i", "c">>), Host),
   RawRecord(PyDatetime(0), PyStr(INFO), PyStr(HealthCheck), Host)}

\* the same failure reported without a hostname and by the host 'unknown'
MixedHosts ==
  <<RawRecord(PyDatetime(0), PyStr(ERROR), PyStr(<<"d", "i", "s", "k", " ", "f", "a", "i", "l", "u", "r", "e">>), Absent),
    RawRecord(PyDatetime(60), PyStr(ERROR), PyStr(<<"d", "i", "s", "k", " ", "f", "a", "i", "l", "u", "r", "e">>), UnknownHost)>>

PipelineBatches ==
  BatchesOf(PipelineRecords, MaxPipelineBatch) \cup {MixedHosts}

InitPipeline == InitWith(Policies)

NextPipeline ==
  \/ \E logs \in PipelineBatches : ParseLogs(logs)
  \/ Finish
  \/ \E top_n \in TopNs : AnalyzeParsed(top_n)

SpecPipeline == InitPipeline /\ [][NextPipeline]_vars

----------------------------------------------------------------------------
(* main(): read, parse, analyze, report. The readers and the report         *)
(* generator are not modelled: read_logs returns any list, or raises, and   *)
(* generate_report returns or raises. A KeyboardInterrupt can arrive while  *)
(* any stage runs. The messages printed are named by what they say.         *)

PyInt(n) == [kind |-> "int", value |-> n]

Returns == "returns"
RaisesException == "Exception"
RaisesKeyboardInterrupt == "KeyboardInterrupt"

\* where control goes when a statement inside the try block ends this way
Raised(outcome) ==
  IF outcome = RaisesKeyboardInterrupt THEN "except KeyboardInterrupt"
  ELSE "except Exception"

\* parse_args, the banner and the question asked without administrator
\* rights
Startup(top, admin, response) ==
  /\ main_pc = "start"
  /\ args_top' = top
  /\ IF admin \/ Lower(response) = <<"y">>
     THEN /\ main_pc' = "select"
          /\ UNCHANGED <<console, returned>>
     ELSE /\ main_pc' = "exit"
          /\ console' = Append(console, "ended by the user")
          /\ returned' = None
  /\ UNCHANGED <<main_logs, called, parser_vars, analyzer_vars>>

\* platform.system().lower() chooses the reader
SelectReader(system) ==
  /\ main_pc = "select"
  /\ IF system \in {"windows", "linux"}
     THEN /\ main_pc' = "read"
          /\ UNCHANGED <<console, returned>>
     ELSE /\ main_pc' = "exit"
          /\ console' = Append(console, "system not supported")
          /\ returned' = None
  /\ UNCHANGED <<args_top, main_logs, called, parser_vars, analyzer_vars>>

\* logs = log_reader.read_logs(start_date)
ReadLogs(outcome, logs) ==
  /\ main_pc = "read"
  /\ called' = Append(called, "read_logs")
  /\ IF outcome # Returns
     THEN /\ main_pc' = Raised(outcome)
          /\ UNCHANGED <<main_logs, console, returned>>
     ELSE /\ main_logs' = logs
          /\ IF logs = <<>>
             THEN /\ main_pc' = "exit"
                  /\ console' = Append(console, "no logs")
                  /\ returned' = None
             ELSE /\ main_pc' = "parse"
                  /\ console' = Append(console, "collected")
                  /\ UNCHANGED returned
  /\ UNCHANGED <<args_top, parser_vars, analyzer_vars>>

\* parser_obj = LogParser(); parsed_logs = parser_obj.parse_logs(logs)
ParseStage(outcome) ==
  /\ main_pc = "parse"
  /\ called' = Append(called, "parse_logs")
  /\ init_args' = <<None, None, None>>
  /\ filter_levels' = Or(None, DefaultFilterLevels)
  /\ include_keywords' = IncludeKeywords(None)
  /\ exclude_keywords' = Or(None, <<>>)
  /\ IF outcome # Returns
     THEN /\ main_pc' = Raised(outcome)
          /\ UNCHANGED <<pc, raw_logs, parsed_logs, stages, console, returned>>
     ELSE \E results \in {ParseAll(main_logs)} :
            /\ pc' = "returned"
            /\ raw_logs' = main_logs
            /\ parsed_logs' = Appended(results)
            /\ stages' = History(results)
            /\ IF Appended(results) = <<>>
               THEN /\ main_pc' = "exit"
                    /\ console' = Append(console, "nothing parsed")
                    /\ returned' = None
               ELSE /\ main_pc' = "analyze"
                    /\ console' = Append(console, "parsed")
                    /\ UNCHANGED returned
  /\ UNCHANGED <<args_top, main_logs, analyzer_vars>>

\* analyzer = LogAnalyzer();
\* analysis_results = analyzer.analyze(parsed_logs, top_n=args.top)
AnalyzeStage(outcome) ==
  /\ main_pc = "analyze"
  /\ called' = Append(called, "analyze")
  /\ IF outcome # Returns
     THEN /\ main_pc' = Raised(outcome)
          /\ UNCHANGED <<analysis_results, analyze_result, analyzed_logs,
                         analyzed_top_n>>
     ELSE \E results \in {Results(parsed_logs, args_top, clock)} :
            /\ main_pc' = "report"
            /\ analysis_results' =
                 StoredResults(parsed_logs, results, analysis_results)
            /\ analyze_result' = ReturnValue(parsed_logs, results)
            /\ analyzed_logs' = parsed_logs
            /\ analyzed_top_n' = args_top
  /\ UNCHANGED <<args_top, main_logs, console, returned, parser_vars, clock>>

\* report_generator.generate_report(...), then the path and size of the
\* file are printed; control leaves the try block
GenerateReport(outcome) ==
  /\ main_pc = "report"
  /\ called' = Append(called, "generate_report")
  /\ IF outcome # Returns
     THEN /\ main_pc' = Raised(outcome)
          /\ UNCHANGED console
     ELSE /\ main_pc' = "after try"
          /\ console' = Append(console, "report created")
  /\ UNCHANGED <<args_top, main_logs, returned, parser_vars, analyzer_vars>>

\* except KeyboardInterrupt: the handler prints and does not return
ExceptKeyboardInterrupt ==
  /\ main_pc = "except KeyboardInterrupt"
  /\ main_pc' = "after try"
  /\ console' = Append(console, "interrupted by the user")
  /\ UNCHANGED <<args_top, main_logs, called, returned, parser_vars,
                 analyzer_vars>>

\* except Exception: the handler prints and returns 1
ExceptException ==
  /\ main_pc = "except Exception"
  /\ main_pc' = "exit"
  /\ console' = Append(console, "error")
  /\ returned' = PyInt(1)
  /\ UNCHANGED <<args_top, main_logs, called, parser_vars, analyzer_vars>>

\* the statements after the try statement: the final message and return 0
ReportSuccess ==
  /\ main_pc = "after try"
  /\ main_pc' = "exit"
  /\ console' = Append(console, "completed successfully")
  /\ returned' = PyInt(0)
  /\ UNCHANGED <<args_top, main_logs, called, parser_vars, analyzer_vars>>

MaxReadBatch == 2

ReadBatches == BatchesOf(PipelineRecords, MaxReadBatch) \cup {MixedHosts}

Responses == {<<"y">>, <<"Y">>, <<"n">>, <<>>}

Systems == {"windows", "linux", "darwin"}

Outcomes == {Returns, RaisesException, RaisesKeyboardInterrupt}

InitMain == InitWith(DefaultPolicies)

NextMain ==
  \/ \E top \in TopNs \cup {DefaultTopN}, admin \in BOOLEAN,
        response \in Responses :
       Startup(top, admin, response)
  \/ \E system \in Systems : SelectReader(system)
  \/ \E outcome \in Outcomes, logs \in ReadBatches : ReadLogs(outcome, logs)
  \/ \E outcome \in {Returns, RaisesKeyboardInterrupt} : ParseStage(outcome)
  \/ \E outcome \in {Returns, RaisesKeyboardInterrupt} : AnalyzeStage(outcome)
  \/ \E outcome \in Outcomes : GenerateReport(outcome)
  \/ ExceptKeyboardInterrupt
  \/ ExceptException
  \/ ReportSuccess

SpecMain == InitMain /\ [][NextMain]_vars

----------------------------------------------------------------------------
(* Error statistics: short lists of records that share or differ in hash,   *)
(* level and severity, and the burst of fifteen equal records.              *)

ErrorRecords ==
  {ConnectionTimeout, DiskFull, DiskFullCritical, KernelPanic, RetryWarning}

FifteenTimeouts == Run(ConnectionTimeout, 15, 0, 1)

ErrorInputs == BatchesOf(ErrorRecords, MaxErrorLogs) \cup {FifteenTimeouts}

InitErrors == InitWith(DefaultPolicies)

NextErrors ==
  \/ \E logs \in ErrorInputs, top_n \in TopNs : RunAnalysis(logs, top_n)
  \/ EndRun
  \/ Tick

SpecErrors == InitErrors /\ [][NextErrors]_vars

----------------------------------------------------------------------------
(* Critical events: lists made of runs of equal records, a second or seven  *)
(* seconds apart, around the burst threshold and the cap of the event list. *)

EventRuns ==
  {Run(ConnectionTimeout, BurstThreshold - 1, 0, 1),
   Run(ConnectionTimeout, BurstThreshold, 0, 1),
   Run(ConnectionTimeout, BurstThreshold, 55, 1),
   Run(ConnectionTimeout, CriticalEventsMax + 1, 0, 1),
   Run(ConnectionTimeout, 1, 30, 1),
   Run(KernelPanic, 1, 0, 1),
   Run(KernelPanic, 1, 200, 1),
   Run(KernelPanic, BurstThreshold - 1, 0, 7),
   Run(KernelPanic, BurstThreshold, 60, 1),
   Run(KernelPanic, CriticalEventsMax + 1, 300, 2)}

EventInputs ==
  {Flatten(runs) : runs \in UNION {[1..k -> EventRuns] : k \in 0..MaxRuns}}

InitEvents == InitWith(DefaultPolicies)

NextEvents ==
  \/ \E logs \in EventInputs : RunAnalysis(logs, DefaultTopN)
  \/ EndRun

SpecEvents == InitEvents /\ [][NextEvents]_vars

----------------------------------------------------------------------------
(* Trends: three clusters of records with chosen error rates, short lists   *)
(* around the one-hour span, and the ten-hour scenario.                     *)

\* errors error records and total - errors others, all at time t
Cluster(t, errors, total) ==
  Run(ConnectionTimeout, errors, t, 0) \o Run(RetryWarning, total - errors, t, 0)

\* the times of the three clusters
ClusterTimes == {<<3000, 3700, 7300>>, <<4000, 7600, 11200>>}

\* two records in the first cluster, MaxTotal in each of the others
ClusterInputs ==
  {Cluster(times[1], first, 2) \o Cluster(times[2], second, MaxTotal)
     \o Cluster(times[3], third, MaxTotal) :
     times \in ClusterTimes, first \in 0..2,
     second \in 0..MaxTotal, third \in 0..MaxTotal}

SpanInputs ==
  BatchesOf({At(ConnectionTimeout, 0), At(RetryWarning, 3599),
             At(KernelPanic, 3600)}, 2)

\* Ten hours from start: two error records in each of the first five hours,
\* ten in each of the last five, and others records of another level in
\* every hour.
Scenario3(start, others) ==
  Flatten([h \in 1..10 |->
             Run(ConnectionTimeout, IF h <= 5 THEN 2 ELSE 10,
                 start + 3600 * (h - 1), IF h <= 5 THEN 1800 ELSE 360)
             \o Run(RetryWarning, others, start + 3600 * (h - 1) + 100, 60)])

ScenarioStarts == {0, 1800, 21000}

ScenarioInputs ==
  {Scenario3(start, others) : start \in ScenarioStarts, others \in {0, 1}}

TrendInputs == ClusterInputs \cup SpanInputs \cup ScenarioInputs

InitTrend == InitWith(DefaultPolicies)

NextTrend ==
  \/ \E logs \in TrendInputs : RunAnalysis(logs, DefaultTopN)
  \/ EndRun

SpecTrend == InitTrend /\ [][NextTrend]_vars

----------------------------------------------------------------------------
(* Claims *)

Returned == pc = "returned"

\* What the record's fields say, read as the specification reads them.
TimestampOf(r) == IF r.kind = "dict" THEN GetOrNone(r.timestamp) ELSE None

TrimmedMessageOf(r) ==
  IF r.kind = "dict" THEN Strip(Str(Get(r.message, PyStr(<<>>)))) ELSE <<>>

Unusable(r) == ~IsDatetime(TimestampOf(r)) \/ TrimmedMessageOf(r) = <<>>

Retained(i) == "process" \in stages[i].reached

\* C1: no record returned by parse_logs originates from a raw record whose
\* timestamp is absent or not a datetime, or whose message is empty after
\* trimming; such a record is passed neither to _should_include_log nor to
\* _process_log_entry.
C1_UnusableDiscarded ==
  Returned =>
    /\ \A i \in DOMAIN raw_logs :
         Unusable(raw_logs[i]) =>
           stages[i].reached \cap {"filter", "process"} = {}
    /\ \A n \in DOMAIN parsed_logs :
         /\ IsDatetime(parsed_logs[n].timestamp)
         /\ parsed_logs[n].original_message # <<>>
         /\ \E i \in DOMAIN raw_logs :
              /\ ~Unusable(raw_logs[i])
              /\ parsed_logs[n].timestamp = TimestampOf(raw_logs[i])
              /\ parsed_logs[n].original_message = TrimmedMessageOf(raw_logs[i])

C1_Witness ==
  /\ Returned
  /\ \E i, j \in DOMAIN raw_logs : Unusable(raw_logs[i]) /\ Retained(j)
  /\ Len(parsed_logs) = 1

\* C2: cleaning is idempotent: cleaning the cleaned message of a returned
\* record again gives the same string.
C2_CleanIdempotent ==
  Returned =>
    \A n \in DOMAIN parsed_logs :
      CleanMessage(parsed_logs[n].message) = parsed_logs[n].message

\* C3: every record returned by parse_logs has a non-empty cleaned message.
C3_MessageNonEmpty ==
  Returned => \A n \in DOMAIN parsed_logs : parsed_logs[n].message # <<>>

Filtered(i) == "filter" \in stages[i].reached

HasErrorKeyword(entry) ==
  \E n \in DOMAIN ERROR_KEYWORDS :
    Contains(Lower(entry.message), ERROR_KEYWORDS[n])

HasKeywordOf(keywords, entry) ==
  \E n \in DOMAIN keywords :
    Contains(Lower(entry.message), Lower(keywords[n]))

LevelListed(entry) == \E n \in DOMAIN filter_levels : filter_levels[n] = entry.level

\* C4: the level step rejects a record whose level is not in filter_levels
\* unless its lower-cased message contains a built-in error keyword, and it
\* never rejects a record whose level is in filter_levels.
C4_LevelStep ==
  Returned =>
    \A i \in DOMAIN raw_logs :
      Filtered(i) =>
        LET entry == stages[i].entry
        IN  /\ (~LevelListed(entry) /\ ~HasErrorKeyword(entry))
                 => (stages[i].returned_at = 163 /\ ~Retained(i))
            /\ (LevelListed(entry) \/ HasErrorKeyword(entry))
                 => stages[i].returned_at # 163

C4_Witness ==
  /\ Returned
  /\ \E i \in DOMAIN raw_logs :
       /\ Filtered(i)
       /\ ~LevelListed(stages[i].entry)
       /\ HasErrorKeyword(stages[i].entry)
       /\ Retained(i)

\* C5: a record whose lower-cased message contains a configured exclude
\* keyword, compared without regard to case, is rejected whatever its level
\* and whatever other keywords it contains.
C5_ExcludeWins ==
  Returned =>
    \A i \in DOMAIN raw_logs :
      (Filtered(i) /\ HasKeywordOf(exclude_keywords, stages[i].entry))
        => ~Retained(i)

C5_Witness ==
  /\ Returned
  /\ \E i \in DOMAIN raw_logs :
       /\ Filtered(i)
       /\ HasKeywordOf(exclude_keywords, stages[i].entry)
       /\ HasErrorKeyword(stages[i].entry)
       /\ stages[i].entry.level = ERROR
       /\ LevelListed(stages[i].entry)
       /\ stages[i].returned_at = 167

\* C6: a record of level ERROR or CRITICAL that passes the level step and
\* the exclude step is accepted, also when its message matches no include
\* keyword.
C6_ErrorsKept ==
  Returned =>
    \A i \in DOMAIN raw_logs :
      (/\ Filtered(i)
       /\ stages[i].entry.level \in {ERROR, CRITICAL}
       /\ stages[i].returned_at \notin {163, 167})
        => (Retained(i) /\ Len(parsed_logs) > 0)

C6_Witness ==
  /\ Returned
  /\ \E i \in DOMAIN raw_logs :
       /\ Filtered(i)
       /\ stages[i].entry.level \in {ERROR, CRITICAL}
       /\ ~HasKeywordOf(include_keywords, stages[i].entry)
       /\ Retained(i)

DefaultConstructed == init_args = <<None, None, None>>

SetOf(list) == {list[n] : n \in DOMAIN list}

DefaultKeeps(entry) ==
  \/ entry.level \in {ERROR, CRITICAL}
  \/ /\ entry.level = WARNING
     /\ HasKeywordOf(ERROR_KEYWORDS \o WARNING_KEYWORDS, entry)
  \/ /\ entry.level \notin {ERROR, CRITICAL, WARNING}
     /\ HasErrorKeyword(entry)

HealthCheckBatch ==
  <<RawRecord(PyDatetime(0), PyStr(INFO), PyStr(HealthCheck), Host)>>

C8_SameHash ==
  (Returned /\ Len(parsed_logs) = 2) =>
    parsed_logs[1].message_hash = parsed_logs[2].message_hash

Categories ==
  <<[words |-> NetworkWords, label |-> NetworkError],
    [words |-> FilesystemWords, label |-> FilesystemError],
    [words |-> AuthWords, label |-> AuthError],
    [words |-> ApplicationWords, label |-> ApplicationError],
    [words |-> SystemWords, label |-> SystemError]>>

Matching(message) ==
  {k \in DOMAIN Categories :
     \E n \in DOMAIN Categories[k].words :
       Contains(Lower(message), Categories[k].words[n])}

\* C9: error_type is the first category, in the order Network, Filesystem,
\* Authentication, Application, System, one of whose keywords occurs in the
\* lower-cased message, and the default when none does.
C9_FirstCategory ==
  Returned =>
    \A n \in DOMAIN parsed_logs :
      LET matching == Matching(parsed_logs[n].message)
      IN  parsed_logs[n].error_type =
            IF matching = {} THEN GeneralError
            ELSE Categories[Min(matching)].label

C9_Witness ==
  /\ Returned
  /\ \E n \in DOMAIN parsed_logs :
       /\ Cardinality(Matching(parsed_logs[n].message)) >= 2
       /\ parsed_logs[n].error_type = FilesystemError

Base(level) ==
  CASE level = CRITICAL -> 90
    [] level = ERROR -> 70
    [] level = WARNING -> 40
    [] level = INFO -> 20
    [] level = DEBUG -> 10
    [] OTHER -> 20

CriticalCount(message) ==
  Cardinality({k \in SetOf(critical_keywords) : Contains(Lower(message), k)})

Unclamped(record) == Base(record.level) + 10 * CriticalCount(record.message)

\* C10: severity_score is min(100, base(level) + 10 * k), k the number of
\* distinct critical keywords in the lower-cased message; so it lies in
\* 0..100 for every returned record.
C10_Severity ==
  Returned =>
    \A n \in DOMAIN parsed_logs :
      /\ parsed_logs[n].severity_score =
           IF Unclamped(parsed_logs[n]) > 100 THEN 100
           ELSE Unclamped(parsed_logs[n])
      /\ parsed_logs[n].severity_score \in 0..100

C10_Witness ==
  /\ Returned
  /\ \E n \in DOMAIN parsed_logs :
       /\ Unclamped(parsed_logs[n]) > 100
       /\ parsed_logs[n].severity_score = 100

Called == analyze_result # NoCall

\* C11: analyze on an empty list returns the empty dict, whatever top_n is,
\* and parse_logs on an empty list returns an empty list, whatever the policy.
C11_EmptyInput ==
  /\ (Called /\ analyzed_logs = <<>>) => analyze_result = EmptyDict
  /\ (Returned /\ raw_logs = <<>>) => parsed_logs = <<>>

C11_Witness ==
  /\ Returned
  /\ raw_logs = <<>>
  /\ parsed_logs = <<>>
  /\ Called
  /\ analyzed_logs = <<>>
  /\ analyzed_top_n = MaxTopN
  /\ analyze_result = EmptyDict
  /\ init_args # <<None, None, None>>

\* C12: after every call of analyze the stored analysis_results is the value
\* that call returned.
C12_StoredIsReturned == Called => analysis_results = analyze_result

Analyzed == Called /\ analyzed_logs # <<>>

\* The ERROR and CRITICAL records of the analyzed list, by position.
ErrorPositions ==
  {i \in DOMAIN analyzed_logs : analyzed_logs[i].level \in {ERROR, CRITICAL}}

SameHash(i) ==
  {j \in ErrorPositions :
     analyzed_logs[j].message_hash = analyzed_logs[i].message_hash}

\* one position for each message_hash: where it is first encountered
FirstEncounters == {i \in ErrorPositions : i = Min(SameHash(i))}

\* (count, severity) of i is greater, or equal and i is encountered earlier
Outranks(i, j) ==
  LET ci == Cardinality(SameHash(i))
      cj == Cardinality(SameHash(j))
      si == analyzed_logs[i].severity_score
      sj == analyzed_logs[j].severity_score
  IN  \/ ci > cj
      \/ ci = cj /\ si > sj
      \/ ci = cj /\ si = sj /\ i < j

RankOf(i) == 1 + Cardinality({j \in FirstEncounters : Outranks(j, i)})

\* C13: top_errors lists the groups by count, then severity_score, both
\* descending, groups equal on both in the order of first encounter, and for
\* top_n >= 0 it is the first min(top_n, number of groups) of that ranking.
C13_Ranking ==
  Analyzed =>
    LET top_errors == analyze_result.error_stats.top_errors
        groups == Cardinality(FirstEncounters)
        shown == IF analyzed_top_n < groups THEN analyzed_top_n ELSE groups
    IN  /\ Len(top_errors) = shown
        /\ \A i \in FirstEncounters :
             RankOf(i) <= shown =>
               /\ top_errors[RankOf(i)].message = analyzed_logs[i].message
               /\ top_errors[RankOf(i)].count = Cardinality(SameHash(i))
               /\ top_errors[RankOf(i)].severity_score =
                    analyzed_logs[i].severity_score

\* Two groups tie on count and severity, a third one outranks them by its
\* severity alone, and the last of the three is cut off.
C13_Witness ==
  /\ Analyzed
  /\ analyzed_top_n = 2
  /\ Len(analyze_result.error_stats.top_errors) = 2
  /\ \E i, j, k \in FirstEncounters :
       /\ i < j
       /\ j < k
       /\ Cardinality(SameHash(i)) = Cardinality(SameHash(k))
       /\ analyzed_logs[i].severity_score = analyzed_logs[j].severity_score
       /\ analyzed_logs[k].severity_score > analyzed_logs[i].severity_score
       /\ RankOf(k) = 1
       /\ RankOf(i) = 2
       /\ RankOf(j) = 3

\* C14: the groups partition the ERROR and CRITICAL records by message_hash:
\* total_errors counts those records, every listed group counts the records
\* of one hash, unique_error_patterns is the number of distinct hashes, and
\* fifteen equal ERROR records make one group of count 15 with the Network
\* error type.
C14_Grouping ==
  Analyzed =>
    LET error_stats == analyze_result.error_stats
        top_errors == error_stats.top_errors
    IN  /\ error_stats.total_errors = Cardinality(ErrorPositions)
        /\ \A k \in DOMAIN top_errors :
             \E i \in FirstEncounters :
               /\ top_errors[k].message = analyzed_logs[i].message
               /\ top_errors[k].count = Cardinality(SameHash(i))
        /\ "unique_error_patterns" \in DOMAIN error_stats
        /\ error_stats.unique_error_patterns = Cardinality(FirstEncounters)
        /\ (analyzed_logs = FifteenTimeouts /\ analyzed_top_n >= 1) =>
             /\ Len(top_errors) = 1
             /\ top_errors[1].count = 15
             /\ top_errors[1].error_type = NetworkError

ListedEvents == analyze_result.critical_events

\* the calendar minute of a time
MinuteOf(t) == t - (t % 60)

ErrorsInMinute(m) ==
  {i \in ErrorPositions : MinuteOf(analyzed_logs[i].timestamp.t) = m}

ErrorMinutes == {MinuteOf(analyzed_logs[i].timestamp.t) : i \in ErrorPositions}

BurstMinutes == {m \in ErrorMinutes : Cardinality(ErrorsInMinute(m)) >= 10}

CriticalPositions ==
  {i \in DOMAIN analyzed_logs : analyzed_logs[i].level = CRITICAL}

\* the number of candidate events: CRITICAL records and burst buckets
Candidates == Cardinality(CriticalPositions) + Cardinality(BurstMinutes)

BurstsAt(m) ==
  {k \in DOMAIN ListedEvents :
     /\ ListedEvents[k].type = "high_frequency_errors"
     /\ ListedEvents[k].timestamp.t = m}

EventsOf(i) ==
  {k \in DOMAIN ListedEvents :
     /\ ListedEvents[k].type = "critical_error"
     /\ ListedEvents[k].severity = "high"
     /\ ListedEvents[k].timestamp = analyzed_logs[i].timestamp
     /\ ListedEvents[k].source = analyzed_logs[i].source}

\* C16 as stated: every CRITICAL record is reported by a critical_error
\* event of severity high with its timestamp and source, whatever the size
\* of the input.
C16_EveryCritical ==
  Analyzed => \A i \in CriticalPositions : EventsOf(i) # {}

\* C16 amended: a CRITICAL record is reported by such an event unless the
\* list holds 20 events none of which is older than the record.
C16_CriticalUnlessFull ==
  Analyzed =>
    \A i \in CriticalPositions :
      \/ EventsOf(i) # {}
      \/ /\ Len(ListedEvents) = 20
         /\ \A k \in DOMAIN ListedEvents :
              ListedEvents[k].timestamp.t >= analyzed_logs[i].timestamp.t

\* More than 20 CRITICAL records: one is reported and an older one is not.
C16_Witness ==
  /\ Analyzed
  /\ Cardinality(CriticalPositions) > 20
  /\ \E i, j \in CriticalPositions :
       /\ EventsOf(i) # {}
       /\ EventsOf(j) = {}
       /\ analyzed_logs[j].timestamp.t < analyzed_logs[i].timestamp.t
       /\ analyzed_logs[i].timestamp.t % 60 # 0

\* the number of candidate events and of listed events with the time t
CandidatesAt(t) ==
  Cardinality({i \in CriticalPositions : analyzed_logs[i].timestamp.t = t})
  + (IF t \in BurstMinutes THEN 1 ELSE 0)

ListedAt(t) ==
  Cardinality({k \in DOMAIN ListedEvents : ListedEvents[k].timestamp.t = t})

CandidateTimes ==
  {analyzed_logs[i].timestamp.t : i \in CriticalPositions} \cup BurstMinutes

\* the times of which a candidate event is not listed
DroppedTimes == {t \in CandidateTimes : ListedAt(t) < CandidatesAt(t)}

\* C17: critical_events is sorted by timestamp, latest first, has at most 20
\* entries, all of them candidates, all the candidates when there are at
\* most 20, and no listed event is older than a dropped one.
C17_LatestTwenty ==
  Analyzed =>
    /\ \A k \in 1..(Len(ListedEvents) - 1) :
         ListedEvents[k].timestamp.t >= ListedEvents[k + 1].timestamp.t
    /\ Len(ListedEvents) = IF Candidates > 20 THEN 20 ELSE Candidates
    /\ \A k \in DOMAIN ListedEvents :
         /\ ListedEvents[k].timestamp.t \in CandidateTimes
         /\ ListedAt(ListedEvents[k].timestamp.t)
              <= CandidatesAt(ListedEvents[k].timestamp.t)
    /\ \A t \in DroppedTimes :
         \A k \in DOMAIN ListedEvents : ListedEvents[k].timestamp.t >= t

\* More than 20 candidates, among them a burst, and the records were not
\* given latest first.
C17_Witness ==
  /\ Analyzed
  /\ Candidates > 20
  /\ BurstMinutes # {}
  /\ Len(ListedEvents) = 20
  /\ DroppedTimes # {}
  /\ \E i, j \in CriticalPositions :
       i < j /\ analyzed_logs[i].timestamp.t < analyzed_logs[j].timestamp.t

Trends == analyze_result.trends

Times == {analyzed_logs[i].timestamp.t : i \in DOMAIN analyzed_logs}

\* the seconds between the earliest and the latest record
TimeSpan == Max(Times) - Min(Times)

\* C18: with fewer than 2 records, or less than an hour between the earliest
\* and the latest record, the trends report insufficient data and no
\* direction.
C18_InsufficientData ==
  (Analyzed /\ (Len(analyzed_logs) < 2 \/ TimeSpan < 3600)) =>
    /\ "insufficient_data" \in DOMAIN Trends
    /\ Trends.insufficient_data = TRUE
    /\ "trend_direction" \notin DOMAIN Trends

\* the reported periods, earliest first
ReportedPeriods ==
  LET keys == DOMAIN Trends.period_data
  IN  [r \in 1..Cardinality(keys) |->
         Trends.period_data[CHOOSE k \in keys :
                              Cardinality({j \in keys : j <= k}) = r]]

\* the sum of the error rates errors / total of the periods, as a fraction
\* <<numerator, denominator>>
RECURSIVE RateSum(_)
RateSum(periods) ==
  IF periods = <<>> THEN <<0, 1>>
  ELSE LET rest == RateSum(Tail(periods))
           period == Head(periods)
       IN  <<period.errors * rest[2] + rest[1] * period.total,
             period.total * rest[2]>>

\* the mean of the error rates, as a fraction
Mean(periods) == <<RateSum(periods)[1], RateSum(periods)[2] * Len(periods)>>

\* 10 * a > tenths * b, for fractions a and b
ExceedsTenths(a, tenths, b) == 10 * a[1] * b[2] > tenths * b[1] * a[2]

\* 10 * a < tenths * b, for fractions a and b
BelowTenths(a, tenths, b) == 10 * a[1] * b[2] < tenths * b[1] * a[2]

\* C19: with at least 3 periods, the direction is growing iff the mean rate
\* of the second half exceeds 1.2 times that of the first floor(n / 2)
\* periods, declining iff it is below 0.8 times it, and stable otherwise.
C19_Direction ==
  (Analyzed /\ "trend_direction" \in DOMAIN Trends) =>
    LET n == Len(ReportedPeriods)
        first == Mean(SubSeq(ReportedPeriods, 1, n \div 2))
        second == Mean(SubSeq(ReportedPeriods, (n \div 2) + 1, n))
    IN  /\ n >= 3
        /\ Trends.trend_direction =
             IF ExceedsTenths(second, 12, first) THEN Growing
             ELSE IF BelowTenths(second, 8, first) THEN Declining
             ELSE Stable

\* the ERROR and CRITICAL records of the hour h after the earliest record
ErrorsInHour(h) ==
  {i \in ErrorPositions :
     (analyzed_logs[i].timestamp.t - Min(Times)) \div 3600 = h}

\* ten hours, 2 error records in each of the first five and 10 in each of
\* the last five
TenHours ==
  /\ TimeSpan < 36000
  /\ \A h \in 0..4 : Cardinality(ErrorsInHour(h)) = 2
  /\ \A h \in 5..9 : Cardinality(ErrorsInHour(h)) = 10

\* C20: for ten hours of records with 2 error records in each of the first
\* five hours and 10 in each of the last five, the direction is growing.
C20_TenHoursGrowing ==
  (Analyzed /\ TenHours) =>
    /\ "trend_direction" \in DOMAIN Trends
    /\ Trends.trend_direction = Growing

LevelStats == analyze_result.level_stats

ErrorTypes == analyze_result.error_types

\* the levels of the analysed records, and the error types of its
\* ERROR/CRITICAL records, in the order of the list
LevelsAnalyzed == [i \in DOMAIN analyzed_logs |-> analyzed_logs[i].level]

TypesAnalyzed ==
  LET errors == SelectSeq(analyzed_logs, IsErrorLog)
  IN  [i \in DOMAIN errors |-> errors[i].error_type]

\* the integer nearest to 10000 * count / total: a percentage in hundredths
Hundredths(count, total) == (20000 * count + total) \div (2 * total)

RECURSIVE CountSum(_, _)
CountSum(buckets, n) ==
  IF n = 0 THEN 0 ELSE CountSum(buckets, n - 1) + buckets[n].count

RECURSIVE HundredthsSum(_, _, _)
HundredthsSum(buckets, total, n) ==
  IF n = 0 THEN 0
  ELSE HundredthsSum(buckets, total, n - 1)
       + Hundredths(buckets[n].count, total)

\* one bucket for each distinct value, holding the number of its occurrences;
\* the counts sum to the number of values
CountsAddUp(buckets, values) ==
  /\ \A i \in DOMAIN values : \E k \in DOMAIN buckets : buckets[k].key = values[i]
  /\ \A k, j \in DOMAIN buckets : buckets[k].key = buckets[j].key => k = j
  /\ \A k \in DOMAIN buckets :
       buckets[k].count
         = Cardinality({i \in DOMAIN values : values[i] = buckets[k].key})
  /\ CountSum(buckets, Len(buckets)) = Len(values)

\* each percentage is the share of its count with two decimals, and the
\* percentages sum to 100 up to half a hundredth for each bucket
PercentagesAddUp(buckets, total) ==
  /\ \A k \in DOMAIN buckets :
       buckets[k].percentage
         = TrueDiv(Hundredths(buckets[k].count, total), 100)
  /\ LET sum == HundredthsSum(buckets, total, Len(buckets))
     IN  /\ 2 * (sum - 10000) <= Len(buckets)
         /\ 2 * (10000 - sum) <= Len(buckets)

LevelsAddUp ==
  /\ CountsAddUp(LevelStats.by_level, LevelsAnalyzed)
  /\ PercentagesAddUp(LevelStats.by_level, Len(analyzed_logs))

TypesAddUp ==
  /\ "by_type" \in DOMAIN ErrorTypes
  /\ CountsAddUp(ErrorTypes.by_type, TypesAnalyzed)
  /\ PercentagesAddUp(ErrorTypes.by_type, Len(TypesAnalyzed))

\* C21 as stated: for every non-empty input the level counts sum to the
\* number of records and the level percentages to 100 within the rounding
\* tolerance, and the error-type counts sum to the number of ERROR/CRITICAL
\* records and the error-type percentages to 100 within the tolerance.
C21_EveryInput == Analyzed => LevelsAddUp /\ TypesAddUp

\* C21, amended: the level part holds for every non-empty input; the
\* error-type part holds for every input with an ERROR/CRITICAL record, and
\* without such a record the error-type statistics are the empty dict.
C21_Percentages ==
  Analyzed =>
    /\ LevelsAddUp
    /\ ErrorPositions # {} => TypesAddUp
    /\ ErrorPositions = {} => ErrorTypes = EmptyDict

\* three error records of three types: each type has 33.33 percent, which
\* sum to 99.99, and the two levels have 66.67 and 33.33 percent
C21_Witness ==
  /\ Analyzed
  /\ Len(analyzed_logs) = 3
  /\ Len(ErrorTypes.by_type) = 3
  /\ HundredthsSum(ErrorTypes.by_type, 3, 3) = 9999
  /\ Len(LevelStats.by_level) = 2
  /\ LevelStats.by_level[1].percentage = TrueDiv(6667, 100)

\* the raw records that are usable and that the filter accepted
Accepted(i) ==
  /\ ~Unusable(raw_logs[i])
  /\ Filtered(i)
  /\ stages[i].returned_at = 176

AcceptedPositions == {i \in DOMAIN raw_logs : Accepted(i)}

\* the position in raw_logs of the k-th accepted record
AcceptedAt(k) ==
  CHOOSE i \in AcceptedPositions :
    Cardinality({j \in AcceptedPositions : j <= i}) = k

\* the enriched record is made of the raw record
MadeOf(enriched, raw) ==
  /\ enriched.timestamp = TimestampOf(raw)
  /\ enriched.original_message = TrimmedMessageOf(raw)
  /\ enriched.level = Upper(Str(Get(raw.level, PyStr(INFO))))
  /\ enriched.hostname = GetOrNone(raw.hostname)

\* C22: parse_logs returns for every batch, whatever bad records it holds:
\* every record of the batch is handled, a bad one is skipped, and the list
\* returned holds, in the order of the batch, one record for each usable
\* record that the filter accepted, also for those that follow a bad one.
C22_GracefulDegradation ==
  Returned =>
    /\ Len(stages) = Len(raw_logs)
    /\ Len(parsed_logs) = Cardinality(AcceptedPositions)
    /\ \A k \in DOMAIN parsed_logs :
         MadeOf(parsed_logs[k], raw_logs[AcceptedAt(k)])

\* a record that is no dict, then a usable ERROR record, which is returned
C22_Witness ==
  /\ Returned
  /\ Len(raw_logs) = 2
  /\ raw_logs[1] = None
  /\ Accepted(2)
  /\ Len(parsed_logs) = 1
  /\ parsed_logs[1].level = ERROR

\* C23: in every record parse_logs returns, original_message is the message
\* of the raw record as it was supplied, leading and trailing whitespace
\* included, and message is its cleaned form.
C23_OriginalPreserved ==
  Returned =>
    \A k \in DOMAIN parsed_logs :
      /\ PyStr(parsed_logs[k].original_message)
           = raw_logs[AcceptedAt(k)].message
      /\ parsed_logs[k].message
           = CleanMessage(Str(raw_logs[AcceptedAt(k)].message))

\* the list analysed is the list parse_logs made of raw_logs
Piped == Returned /\ Analyzed /\ analyzed_logs = parsed_logs

\* the host of a raw record, 'unknown' when it has no hostname
HostOf(raw) == Get(raw.hostname, UnknownHost)

\* the raw records that parse_logs kept and whose enriched record has the
\* message hash of the listed error
GroupOf(error) ==
  {i \in AcceptedPositions :
     \E k \in DOMAIN parsed_logs :
       /\ AcceptedAt(k) = i
       /\ IsErrorLog(parsed_logs[k])
       /\ parsed_logs[k].message_hash = GenerateMessageHash(error.message)}

\* C24: in the pipeline the distinct-host counts take a record without a
\* hostname as the host 'unknown': unique_hosts counts the hosts of the
\* records kept, and affected_hosts of a listed error those of its group.
C24_UnknownHost ==
  Piped =>
    /\ analyze_result.general_stats.unique_hosts
         = Cardinality({HostOf(raw_logs[i]) : i \in AcceptedPositions})
    /\ \A n \in DOMAIN analyze_result.error_stats.top_errors :
         LET error == analyze_result.error_stats.top_errors[n]
         IN  error.affected_hosts
               = Cardinality({HostOf(raw_logs[i]) : i \in GroupOf(error)})

\* The length of a period in tenths of a second: a hundredth of the span in
\* seconds, taken as minutes, and an hour at least.
PeriodTenths == IF 6 * TimeSpan > 36000 THEN 6 * TimeSpan ELSE 36000

\* the period of time t: periods of that one length, counted from time 0
PeriodOf(t) == (10 * t) \div PeriodTenths

OccupiedPeriods == {PeriodOf(t) : t \in Times}

RecordsIn(k) ==
  {i \in DOMAIN analyzed_logs : PeriodOf(analyzed_logs[i].timestamp.t) = k}

\* C25: when the records span an hour or more, they are put into periods of
\* one length, which is 60 minutes or more; at most 100 periods hold a
\* record; when fewer than three do, the trend is 'insufficient periods',
\* and otherwise a direction is reported for just the periods that hold a
\* record.
C25_Periods ==
  (Analyzed /\ Len(analyzed_logs) >= 2 /\ TimeSpan >= 3600) =>
    /\ PeriodTenths >= 10 * 3600
    /\ Cardinality(OccupiedPeriods) <= 100
    /\ Cardinality(OccupiedPeriods) < 3 => Trends = InsufficientPeriods
    /\ Cardinality(OccupiedPeriods) >= 3 =>
         /\ "trend_direction" \in DOMAIN Trends
         /\ Trends.trend_direction \in {Stable, Growing, Declining}
         /\ Trends.periods_analyzed = Cardinality(OccupiedPeriods)
         /\ DOMAIN Trends.period_data = OccupiedPeriods
         /\ \A k \in OccupiedPeriods :
              Trends.period_data[k].total = Cardinality(RecordsIn(k))

\* three periods of an hour hold a record, and a direction is reported
C25_Witness ==
  /\ Analyzed
  /\ TimeSpan >= 3600
  /\ PeriodTenths = 36000
  /\ Cardinality(OccupiedPeriods) = 3
  /\ "trend_direction" \in DOMAIN Trends

\* C28: trend analysis never uses more than three periods, since a period
\* is as long as six tenths of the span or longer; a direction is reported
\* for three periods, of which the first half is one period and the second
\* half two.
C28_AtMostThree ==
  (Analyzed /\ Len(analyzed_logs) >= 2 /\ TimeSpan >= 3600) =>
    /\ 10 * PeriodTenths >= 6 * 10 * TimeSpan
    /\ Cardinality(OccupiedPeriods) <= 3
    /\ "trend_direction" \in DOMAIN Trends =>
         /\ Trends.periods_analyzed = 3
         /\ Cardinality(DOMAIN Trends.period_data) = 3
         /\ LET first == ReportedPeriods[1]
                second == ReportedPeriods[2]
                third == ReportedPeriods[3]
            IN  /\ Trends.average_error_rate_first_half
                     = Percentage(first.errors, first.total)
                /\ Trends.average_error_rate_second_half
                     = Round2(FMul(FDiv(FAdd(TrueDiv(second.errors, second.total),
                                             TrueDiv(third.errors, third.total)),
                                        FromInt(2)),
                                   FromInt(100)))

\* ten hours of records in three periods of six hours, and a direction
C28_Witness ==
  /\ Analyzed
  /\ TimeSpan = 36000 - 360
  /\ PeriodTenths = 6 * TimeSpan
  /\ Cardinality(OccupiedPeriods) = 3
  /\ "trend_direction" \in DOMAIN Trends
  /\ Trends.periods_analyzed = 3

\* C26: for every non-empty input the error statistics hold the list of top
\* errors, the total number of errors and the number of distinct groups,
\* also when no record is of level ERROR or CRITICAL.
C26_ThreeKeys ==
  Analyzed =>
    /\ {"top_errors", "total_errors", "unique_error_patterns"}
         \subseteq DOMAIN analyze_result.error_stats
    /\ ErrorPositions = {} =>
         /\ analyze_result.error_stats.top_errors = <<>>
         /\ analyze_result.error_stats.total_errors = 0
         /\ analyze_result.error_stats.unique_error_patterns = 0

\* a step that is a call of parse_logs, and one that is a call of analyze
ParseStep == pc = "idle" /\ pc' = "returned"

AnalyzeStep == pc = "returned" /\ pc' = "returned" /\ analyze_result' # NoCall

UserKeywords(arg) == SetOf(Or(arg, <<>>))

\* the step constructs a parser with the same levels as the one before
SameLevels == init_args' # init_args /\ filter_levels' = filter_levels

IncludeAdded ==
  /\ SameLevels
  /\ init_args'[3] = init_args[3]
  /\ UserKeywords(init_args[2]) \subseteq UserKeywords(init_args'[2])

ExcludeAdded ==
  /\ SameLevels
  /\ init_args'[2] = init_args[2]
  /\ UserKeywords(init_args[3]) \subseteq UserKeywords(init_args'[3])

\* C29: for fixed filter levels, a record that the filter accepts is still
\* accepted by a parser constructed with more include keywords of the caller
\* (and the same exclude keywords), and a record that the filter rejects is
\* still rejected by a parser constructed with more exclude keywords (and
\* the same include keywords).
C29_Monotone ==
  [][\A i \in DOMAIN stages :
       Filtered(i) =>
         /\ IncludeAdded =>
              (ShouldIncludeLog(stages[i].entry)
                 => ShouldIncludeLog(stages[i].entry)')
         /\ ExcludeAdded =>
              (~ShouldIncludeLog(stages[i].entry)
                 => ~ShouldIncludeLog(stages[i].entry)')]_vars

\* A record that a parser rejected for want of an include keyword, and that
\* the parser constructed since, with a keyword of the caller, accepts.
C29_Witness ==
  /\ Returned
  /\ UserKeywords(init_args[2]) # {}
  /\ \E i \in DOMAIN stages :
       /\ Filtered(i)
       /\ stages[i].returned_at = 174
       /\ ~Retained(i)
       /\ ShouldIncludeLog(stages[i].entry)

\* the stage methods in the order main() calls them
MainStages == <<"read_logs", "parse_logs", "analyze", "generate_report">>

StagesInOrder ==
  /\ Len(called) <= Len(MainStages)
  /\ called = SubSeq(MainStages, 1, Len(called))

Printed(message) == \E n \in DOMAIN console : console[n] = message

SuccessReported == Printed("completed successfully") /\ returned = PyInt(0)

ReportGenerated ==
  /\ called = MainStages
  /\ Printed("report created")

\* C30: main() calls the stages in the order read, parse, analyze, report,
\* none without the ones before it, and it reports success (the final
\* message and the return value 0) only in a run in which the report was
\* generated: a run that stopped early, also by an interruption of the
\* user, reports no success.
C30_SuccessOnlyAfterReport ==
  /\ StagesInOrder
  /\ Printed("completed successfully") => ReportGenerated
  /\ returned = PyInt(0) => ReportGenerated

====
